---- MODULE Spec2Model ----
(***************************************************************************)
(* Model of the FRIDAY chat client (src/App.tsx): the message log, the     *)
(* composer, the chat session reference, the history store, and the        *)
(* asynchronous text-stream and image flows started by handleSend.         *)
(*                                                                         *)
(* One action is one run-to-completion step of the event loop: an event    *)
(* handler (or the continuation of an async function after an await)       *)
(* together with the render it causes and the effects of that render.      *)
(*                                                                         *)
(* The two timer callbacks of the image flow (the progress ticker and the  *)
(* delayed reset) write only progress and the ticker's own counter, which  *)
(* nothing else reads.  Spec runs the program with these callbacks left    *)
(* pending; SpecProgress adds them, and SpecImage runs the image flow with *)
(* them.  Voice capture writes only the composer and its own state and is  *)
(* run by SpecVoice.  SpecRouting submits a range of texts, and SpecLoad   *)
(* starts the program on every kind of store content.  In all of these    *)
(* the store has room, so setItem succeeds; SpecStore lets the store fill. *)
(* SpecRetry starts on histories whose user messages may lack a text.     *)
(* A failing call is rejected with an Error that has no message, except in *)
(* SpecFail, where it is rejected with Errors of several names, with and   *)
(* without a message, and in SpecImage, where it is rejected with          *)
(* undefined as well.                                                      *)
(***************************************************************************)
EXTENDS Integers, Sequences, FiniteSets, TLC

VARIABLES messages, input, isThinking, isGenerating, lastError, progress,
          chatRef, storage, calls, ncalls, nextId, retryTimers,
          resetTimers, nclears, storeFull,
          listening, speechRef, recs, nutt, unhandled

\* voice capture: the listening flag, the recognition object speechRef
\* points to, the recognition objects created, the utterances spoken
voiceVars == <<listening, speechRef, recs, nutt>>

vars == <<messages, input, isThinking, isGenerating, lastError, progress,
          chatRef, storage, calls, ncalls, nextId, retryTimers,
          resetTimers, nclears, storeFull, voiceVars, unhandled>>

(***************************************************************************)
(* Bounds of the model.                                                    *)
(***************************************************************************)
MaxSends == 2
MaxFrags == 1
MaxTicks == 1
MaxClears == 1
MaxRetryTimers == 1
MaxSessions == 2
MaxUtterances == 1

\* What the user types and what the remote side streams.
Inputs == {" hi", "/img"}
Stream == <<"Hel", "lo">>
TickIncs == {0, 11}

\* A value that is thrown: an Error with its name and message, a string
\* (kept in message), or undefined.
ErrorOf(name, message) == [type |-> "Error", name |-> name, message |-> message]
ThrownString(s) == [type |-> "string", name |-> "", message |-> s]
ThrownUndefined == [type |-> "undefined", name |-> "", message |-> ""]

\* an Error without a message: the case in which String(err) is shown
Rejections == {ErrorOf("Error", "")}

\* What a remote call is rejected with, or a stream throws: Errors
\* without and with a message, of the base class and of subclasses
Thrown ==
    {ErrorOf("Error", ""), ErrorOf("ApiError", ""), ErrorOf("TypeError", "Failed to fetch")}

\* the k-th fragment the remote side streams
Fragment(k) == Stream[((k - 1) % Len(Stream)) + 1]

\* null and a present value of a nullable slot
Null == <<>>
Some(v) == <<v>>

(***************************************************************************)
(* Strings.  A string of the program is a sequence of UTF-16 code units.   *)
(* A code unit is written as the character itself when it is a tab, a line *)
(* feed, a form feed or a carriage return, a character of U+0020 to U+007E *)
(* other than the backslash and the grave accent, or a character of U+00A0 *)
(* to U+00FF; every other code unit is written as a backslash, the letter  *)
(* u and four upper-case hexadecimal digits.  So a backslash always opens  *)
(* the six characters of one code unit, and the code units of a string can *)
(* be read off from either end.                                            *)
(***************************************************************************)
CharAt(s, i) == SubSeq(s, i, i)

\* the characters of U+0020 to U+007E, in order; the places of the two
\* that are written with a backslash (U+005C and U+0060) hold a backslash
AsciiChars ==
    " !\"#$%&'()*+,-./0123456789:;<=>?@ABCDEFGHIJKLMNOPQRSTUVWXYZ[\\]^_\\abcdefghijklmnopqrstuvwxyz{|}~"

\* the characters of U+00A0 to U+00FF, in order
Latin1Chars ==
    " ¡¢£¤¥¦§¨©ª«¬­®¯°±²³´µ¶·¸¹º»¼½¾¿ÀÁÂÃÄÅÆÇÈÉÊËÌÍÎÏÐÑÒÓÔÕÖ×ØÙÚÛÜÝÞßàáâãäåæçèéêëìíîïðñòóôõö÷øùúûüýþÿ"
HexDigits == "0123456789ABCDEF"
DigitChars == "0123456789"

InChars(c, set) == \E i \in 1..Len(set) : CharAt(set, i) = c

HexVal(c) == (CHOOSE p \in 1..16 : CharAt(HexDigits, p) = c) - 1
HexDigit(n) == CharAt(HexDigits, n + 1)
Hex4(n) ==
    HexDigit(n \div 4096) \o HexDigit((n \div 256) % 16)
        \o HexDigit((n \div 16) % 16) \o HexDigit(n % 16)

\* the number of characters that write the code unit starting at i, and
\* the one ending the string
UnitLen(s, i) == IF CharAt(s, i) = "\\" THEN 6 ELSE 1
LastUnitLen(s) == IF Len(s) >= 6 /\ CharAt(s, Len(s) - 5) = "\\" THEN 6 ELSE 1

\* position i starts a code unit: none of the five characters before it
\* is a backslash
UnitStart(s, i) == \A j \in 1..5 : i - j < 1 \/ CharAt(s, i - j) # "\\"

\* the code unit of each character that stands for itself
CharCode ==
    [c \in {CharAt(AsciiChars, p) : p \in 1..Len(AsciiChars)} \ {"\\"} |->
        31 + (CHOOSE p \in 1..Len(AsciiChars) : CharAt(AsciiChars, p) = c)]
    @@ [c \in {CharAt(Latin1Chars, p) : p \in 1..Len(Latin1Chars)} |->
        159 + (CHOOSE p \in 1..Len(Latin1Chars) : CharAt(Latin1Chars, p) = c)]
    @@ ("\t" :> 9 @@ "\n" :> 10 @@ "\f" :> 12 @@ "\r" :> 13)

\* s.charCodeAt: the code unit written at position i
CodeAt(s, i) ==
    IF CharAt(s, i) = "\\"
    THEN 4096 * HexVal(CharAt(s, i + 2)) + 256 * HexVal(CharAt(s, i + 3))
         + 16 * HexVal(CharAt(s, i + 4)) + HexVal(CharAt(s, i + 5))
    ELSE CharCode[CharAt(s, i)]

\* String.fromCharCode(n)
FromCharCode(n) ==
    IF 32 <= n /\ n <= 126 /\ n \notin {92, 96} THEN CharAt(AsciiChars, n - 31)
    ELSE IF 160 <= n /\ n <= 255 THEN CharAt(Latin1Chars, n - 159)
    ELSE IF n \in {9, 10, 12, 13}
         THEN CHOOSE c \in {"\t", "\n", "\f", "\r"} : CharCode[c] = n
    ELSE "\\u" \o Hex4(n)

\* the code units of s from position i on
RECURSIVE CodeUnits(_, _)
CodeUnits(s, i) ==
    IF i > Len(s) THEN <<>>
    ELSE <<CodeAt(s, i)>> \o CodeUnits(s, i + UnitLen(s, i))

IsHighSurrogate(u) == 55296 <= u /\ u <= 56319
IsLowSurrogate(u) == 56320 <= u /\ u <= 57343

\* the code points of the code units u from index k on: a high surrogate
\* followed by a low one is one code point, any other unit is its own
RECURSIVE CodePoints(_, _)
CodePoints(u, k) ==
    IF k > Len(u) THEN <<>>
    ELSE IF IsHighSurrogate(u[k]) /\ k < Len(u) /\ IsLowSurrogate(u[k + 1])
         THEN <<65536 + (u[k] - 55296) * 1024 + (u[k + 1] - 56320)>>
              \o CodePoints(u, k + 2)
         ELSE <<u[k]>> \o CodePoints(u, k + 1)

\* String.fromCodePoint(cp)
FromCodePoint(cp) ==
    IF cp >= 65536
    THEN FromCharCode(55296 + ((cp - 65536) \div 1024))
         \o FromCharCode(56320 + ((cp - 65536) % 1024))
    ELSE FromCharCode(cp)

\* toLowerCase works with the case data of the Unicode version the engine
\* carries, here 17.0.  The simple lower-case mappings of the Unicode
\* Character Database (UnicodeData.txt, version 17.0) from U+00C0 on: a
\* code point cp with lo <= cp <= hi and cp - lo a multiple of step maps
\* to cp + delta.  Each code point is in at most one entry.
LowerRanges ==
    {<<192, 214, 1, 32>>, <<216, 222, 1, 32>>, <<256, 302, 2, 1>>,
     <<306, 310, 2, 1>>, <<313, 327, 2, 1>>, <<330, 374, 2, 1>>,
     <<376, 376, 1, -121>>, <<377, 381, 2, 1>>, <<385, 385, 1, 210>>,
     <<386, 388, 2, 1>>, <<390, 390, 1, 206>>, <<391, 391, 1, 1>>,
     <<393, 394, 1, 205>>, <<395, 395, 1, 1>>, <<398, 398, 1, 79>>,
     <<399, 399, 1, 202>>, <<400, 400, 1, 203>>, <<401, 401, 1, 1>>,
     <<403, 403, 1, 205>>, <<404, 404, 1, 207>>, <<406, 406, 1, 211>>,
     <<407, 407, 1, 209>>, <<408, 408, 1, 1>>, <<412, 412, 1, 211>>,
     <<413, 413, 1, 213>>, <<415, 415, 1, 214>>, <<416, 420, 2, 1>>,
     <<422, 422, 1, 218>>, <<423, 423, 1, 1>>, <<425, 425, 1, 218>>,
     <<428, 428, 1, 1>>, <<430, 430, 1, 218>>, <<431, 431, 1, 1>>,
     <<433, 434, 1, 217>>, <<435, 437, 2, 1>>, <<439, 439, 1, 219>>,
     <<440, 440, 1, 1>>, <<444, 444, 1, 1>>, <<452, 452, 1, 2>>,
     <<453, 453, 1, 1>>, <<455, 455, 1, 2>>, <<456, 456, 1, 1>>,
     <<458, 458, 1, 2>>, <<459, 475, 2, 1>>, <<478, 494, 2, 1>>,
     <<497, 497, 1, 2>>, <<498, 500, 2, 1>>, <<502, 502, 1, -97>>,
     <<503, 503, 1, -56>>, <<504, 542, 2, 1>>, <<544, 544, 1, -130>>,
     <<546, 562, 2, 1>>, <<570, 570, 1, 10795>>, <<571, 571, 1, 1>>,
     <<573, 573, 1, -163>>, <<574, 574, 1, 10792>>, <<577, 577, 1, 1>>,
     <<579, 579, 1, -195>>, <<580, 580, 1, 69>>, <<581, 581, 1, 71>>,
     <<582, 590, 2, 1>>, <<880, 882, 2, 1>>, <<886, 886, 1, 1>>,
     <<895, 895, 1, 116>>, <<902, 902, 1, 38>>, <<904, 906, 1, 37>>,
     <<908, 908, 1, 64>>, <<910, 911, 1, 63>>, <<913, 929, 1, 32>>,
     <<931, 939, 1, 32>>, <<975, 975, 1, 8>>, <<984, 1006, 2, 1>>,
     <<1012, 1012, 1, -60>>, <<1015, 1015, 1, 1>>, <<1017, 1017, 1, -7>>,
     <<1018, 1018, 1, 1>>, <<1021, 1023, 1, -130>>, <<1024, 1039, 1, 80>>,
     <<1040, 1071, 1, 32>>, <<1120, 1152, 2, 1>>, <<1162, 1214, 2, 1>>,
     <<1216, 1216, 1, 15>>, <<1217, 1229, 2, 1>>, <<1232, 1326, 2, 1>>,
     <<1329, 1366, 1, 48>>, <<4256, 4293, 1, 7264>>,
     <<4295, 4295, 1, 7264>>, <<4301, 4301, 1, 7264>>,
     <<5024, 5103, 1, 38864>>, <<5104, 5109, 1, 8>>, <<7305, 7305, 1, 1>>,
     <<7312, 7354, 1, -3008>>, <<7357, 7359, 1, -3008>>,
     <<7680, 7828, 2, 1>>, <<7838, 7838, 1, -7615>>, <<7840, 7934, 2, 1>>,
     <<7944, 7951, 1, -8>>, <<7960, 7965, 1, -8>>, <<7976, 7983, 1, -8>>,
     <<7992, 7999, 1, -8>>, <<8008, 8013, 1, -8>>, <<8025, 8031, 2, -8>>,
     <<8040, 8047, 1, -8>>, <<8072, 8079, 1, -8>>, <<8088, 8095, 1, -8>>,
     <<8104, 8111, 1, -8>>, <<8120, 8121, 1, -8>>, <<8122, 8123, 1, -74>>,
     <<8124, 8124, 1, -9>>, <<8136, 8139, 1, -86>>, <<8140, 8140, 1, -9>>,
     <<8152, 8153, 1, -8>>, <<8154, 8155, 1, -100>>, <<8168, 8169, 1, -8>>,
     <<8170, 8171, 1, -112>>, <<8172, 8172, 1, -7>>,
     <<8184, 8185, 1, -128>>, <<8186, 8187, 1, -126>>,
     <<8188, 8188, 1, -9>>, <<8486, 8486, 1, -7517>>,
     <<8490, 8490, 1, -8383>>, <<8491, 8491, 1, -8262>>,
     <<8498, 8498, 1, 28>>, <<8544, 8559, 1, 16>>, <<8579, 8579, 1, 1>>,
     <<9398, 9423, 1, 26>>, <<11264, 11311, 1, 48>>, <<11360, 11360, 1, 1>>,
     <<11362, 11362, 1, -10743>>, <<11363, 11363, 1, -3814>>,
     <<11364, 11364, 1, -10727>>, <<11367, 11371, 2, 1>>,
     <<11373, 11373, 1, -10780>>, <<11374, 11374, 1, -10749>>,
     <<11375, 11375, 1, -10783>>, <<11376, 11376, 1, -10782>>,
     <<11378, 11378, 1, 1>>, <<11381, 11381, 1, 1>>,
     <<11390, 11391, 1, -10815>>, <<11392, 11490, 2, 1>>,
     <<11499, 11501, 2, 1>>, <<11506, 11506, 1, 1>>, <<42560, 42604, 2, 1>>,
     <<42624, 42650, 2, 1>>, <<42786, 42798, 2, 1>>, <<42802, 42862, 2, 1>>,
     <<42873, 42875, 2, 1>>, <<42877, 42877, 1, -35332>>,
     <<42878, 42886, 2, 1>>, <<42891, 42891, 1, 1>>,
     <<42893, 42893, 1, -42280>>, <<42896, 42898, 2, 1>>,
     <<42902, 42920, 2, 1>>, <<42922, 42922, 1, -42308>>,
     <<42923, 42923, 1, -42319>>, <<42924, 42924, 1, -42315>>,
     <<42925, 42925, 1, -42305>>, <<42926, 42926, 1, -42308>>,
     <<42928, 42928, 1, -42258>>, <<42929, 42929, 1, -42282>>,
     <<42930, 42930, 1, -42261>>, <<42931, 42931, 1, 928>>,
     <<42932, 42946, 2, 1>>, <<42948, 42948, 1, -48>>,
     <<42949, 42949, 1, -42307>>, <<42950, 42950, 1, -35384>>,
     <<42951, 42953, 2, 1>>, <<42955, 42955, 1, -42343>>,
     <<42956, 42970, 2, 1>>, <<42972, 42972, 1, -42561>>,
     <<42997, 42997, 1, 1>>, <<65313, 65338, 1, 32>>,
     <<66560, 66599, 1, 40>>, <<66736, 66771, 1, 40>>,
     <<66928, 66964, 2, 39>>, <<66929, 66937, 2, 39>>,
     <<66941, 66953, 2, 39>>, <<66957, 66961, 2, 39>>,
     <<66965, 66965, 1, 39>>, <<68736, 68786, 1, 64>>,
     <<68944, 68965, 1, 32>>, <<71840, 71871, 1, 32>>,
     <<93760, 93791, 1, 32>>, <<93856, 93880, 1, 27>>,
     <<125184, 125217, 1, 34>>}

\* The code points with the property Cased, and those with the property
\* Case_Ignorable (DerivedCoreProperties.txt, version 17.0), as ranges lo
\* to hi.
CasedRanges ==
    {<<65, 90>>, <<97, 122>>, <<170, 170>>, <<181, 181>>, <<186, 186>>,
     <<192, 214>>, <<216, 246>>, <<248, 442>>, <<444, 447>>, <<452, 659>>,
     <<662, 696>>, <<704, 705>>, <<736, 740>>, <<837, 837>>, <<880, 883>>,
     <<886, 887>>, <<890, 893>>, <<895, 895>>, <<902, 902>>, <<904, 906>>,
     <<908, 908>>, <<910, 929>>, <<931, 1013>>, <<1015, 1153>>,
     <<1162, 1327>>, <<1329, 1366>>, <<1376, 1416>>, <<4256, 4293>>,
     <<4295, 4295>>, <<4301, 4301>>, <<4304, 4346>>, <<4348, 4351>>,
     <<5024, 5109>>, <<5112, 5117>>, <<7296, 7306>>, <<7312, 7354>>,
     <<7357, 7359>>, <<7424, 7615>>, <<7680, 7957>>, <<7960, 7965>>,
     <<7968, 8005>>, <<8008, 8013>>, <<8016, 8023>>, <<8025, 8025>>,
     <<8027, 8027>>, <<8029, 8029>>, <<8031, 8061>>, <<8064, 8116>>,
     <<8118, 8124>>, <<8126, 8126>>, <<8130, 8132>>, <<8134, 8140>>,
     <<8144, 8147>>, <<8150, 8155>>, <<8160, 8172>>, <<8178, 8180>>,
     <<8182, 8188>>, <<8305, 8305>>, <<8319, 8319>>, <<8336, 8348>>,
     <<8450, 8450>>, <<8455, 8455>>, <<8458, 8467>>, <<8469, 8469>>,
     <<8473, 8477>>, <<8484, 8484>>, <<8486, 8486>>, <<8488, 8488>>,
     <<8490, 8493>>, <<8495, 8500>>, <<8505, 8505>>, <<8508, 8511>>,
     <<8517, 8521>>, <<8526, 8526>>, <<8544, 8575>>, <<8579, 8580>>,
     <<9398, 9449>>, <<11264, 11492>>, <<11499, 11502>>, <<11506, 11507>>,
     <<11520, 11557>>, <<11559, 11559>>, <<11565, 11565>>, <<42560, 42605>>,
     <<42624, 42653>>, <<42786, 42887>>, <<42891, 42894>>, <<42896, 42972>>,
     <<42993, 42998>>, <<43000, 43002>>, <<43824, 43866>>, <<43868, 43881>>,
     <<43888, 43967>>, <<64256, 64262>>, <<64275, 64279>>, <<65313, 65338>>,
     <<65345, 65370>>, <<66560, 66639>>, <<66736, 66771>>, <<66776, 66811>>,
     <<66928, 66938>>, <<66940, 66954>>, <<66956, 66962>>, <<66964, 66965>>,
     <<66967, 66977>>, <<66979, 66993>>, <<66995, 67001>>, <<67003, 67004>>,
     <<67456, 67456>>, <<67459, 67461>>, <<67463, 67504>>, <<67506, 67514>>,
     <<68736, 68786>>, <<68800, 68850>>, <<68944, 68965>>, <<68976, 68997>>,
     <<71840, 71903>>, <<93760, 93823>>, <<93856, 93880>>, <<93883, 93907>>,
     <<119808, 119892>>, <<119894, 119964>>, <<119966, 119967>>,
     <<119970, 119970>>, <<119973, 119974>>, <<119977, 119980>>,
     <<119982, 119993>>, <<119995, 119995>>, <<119997, 120003>>,
     <<120005, 120069>>, <<120071, 120074>>, <<120077, 120084>>,
     <<120086, 120092>>, <<120094, 120121>>, <<120123, 120126>>,
     <<120128, 120132>>, <<120134, 120134>>, <<120138, 120144>>,
     <<120146, 120485>>, <<120488, 120512>>, <<120514, 120538>>,
     <<120540, 120570>>, <<120572, 120596>>, <<120598, 120628>>,
     <<120630, 120654>>, <<120656, 120686>>, <<120688, 120712>>,
     <<120714, 120744>>, <<120746, 120770>>, <<120772, 120779>>,
     <<122624, 122633>>, <<122635, 122654>>, <<122661, 122666>>,
     <<122928, 122989>>, <<125184, 125251>>, <<127280, 127305>>,
     <<127312, 127337>>, <<127344, 127369>>}

CaseIgnorableRanges ==
    {<<39, 39>>, <<46, 46>>, <<58, 58>>, <<94, 94>>, <<96, 96>>,
     <<168, 168>>, <<173, 173>>, <<175, 175>>, <<180, 180>>, <<183, 184>>,
     <<688, 879>>, <<884, 885>>, <<890, 890>>, <<900, 901>>, <<903, 903>>,
     <<1155, 1161>>, <<1369, 1369>>, <<1375, 1375>>, <<1425, 1469>>,
     <<1471, 1471>>, <<1473, 1474>>, <<1476, 1477>>, <<1479, 1479>>,
     <<1524, 1524>>, <<1536, 1541>>, <<1552, 1562>>, <<1564, 1564>>,
     <<1600, 1600>>, <<1611, 1631>>, <<1648, 1648>>, <<1750, 1757>>,
     <<1759, 1768>>, <<1770, 1773>>, <<1807, 1807>>, <<1809, 1809>>,
     <<1840, 1866>>, <<1958, 1968>>, <<2027, 2037>>, <<2042, 2042>>,
     <<2045, 2045>>, <<2070, 2093>>, <<2137, 2139>>, <<2184, 2184>>,
     <<2192, 2193>>, <<2199, 2207>>, <<2249, 2306>>, <<2362, 2362>>,
     <<2364, 2364>>, <<2369, 2376>>, <<2381, 2381>>, <<2385, 2391>>,
     <<2402, 2403>>, <<2417, 2417>>, <<2433, 2433>>, <<2492, 2492>>,
     <<2497, 2500>>, <<2509, 2509>>, <<2530, 2531>>, <<2558, 2558>>,
     <<2561, 2562>>, <<2620, 2620>>, <<2625, 2626>>, <<2631, 2632>>,
     <<2635, 2637>>, <<2641, 2641>>, <<2672, 2673>>, <<2677, 2677>>,
     <<2689, 2690>>, <<2748, 2748>>, <<2753, 2757>>, <<2759, 2760>>,
     <<2765, 2765>>, <<2786, 2787>>, <<2810, 2815>>, <<2817, 2817>>,
     <<2876, 2876>>, <<2879, 2879>>, <<2881, 2884>>, <<2893, 2893>>,
     <<2901, 2902>>, <<2914, 2915>>, <<2946, 2946>>, <<3008, 3008>>,
     <<3021, 3021>>, <<3072, 3072>>, <<3076, 3076>>, <<3132, 3132>>,
     <<3134, 3136>>, <<3142, 3144>>, <<3146, 3149>>, <<3157, 3158>>,
     <<3170, 3171>>, <<3201, 3201>>, <<3260, 3260>>, <<3263, 3263>>,
     <<3270, 3270>>, <<3276, 3277>>, <<3298, 3299>>, <<3328, 3329>>,
     <<3387, 3388>>, <<3393, 3396>>, <<3405, 3405>>, <<3426, 3427>>,
     <<3457, 3457>>, <<3530, 3530>>, <<3538, 3540>>, <<3542, 3542>>,
     <<3633, 3633>>, <<3636, 3642>>, <<3654, 3662>>, <<3761, 3761>>,
     <<3764, 3772>>, <<3782, 3782>>, <<3784, 3790>>, <<3864, 3865>>,
     <<3893, 3893>>, <<3895, 3895>>, <<3897, 3897>>, <<3953, 3966>>,
     <<3968, 3972>>, <<3974, 3975>>, <<3981, 3991>>, <<3993, 4028>>,
     <<4038, 4038>>, <<4141, 4144>>, <<4146, 4151>>, <<4153, 4154>>,
     <<4157, 4158>>, <<4184, 4185>>, <<4190, 4192>>, <<4209, 4212>>,
     <<4226, 4226>>, <<4229, 4230>>, <<4237, 4237>>, <<4253, 4253>>,
     <<4348, 4348>>, <<4957, 4959>>, <<5906, 5908>>, <<5938, 5939>>,
     <<5970, 5971>>, <<6002, 6003>>, <<6068, 6069>>, <<6071, 6077>>,
     <<6086, 6086>>, <<6089, 6099>>, <<6103, 6103>>, <<6109, 6109>>,
     <<6155, 6159>>, <<6211, 6211>>, <<6277, 6278>>, <<6313, 6313>>,
     <<6432, 6434>>, <<6439, 6440>>, <<6450, 6450>>, <<6457, 6459>>,
     <<6679, 6680>>, <<6683, 6683>>, <<6742, 6742>>, <<6744, 6750>>,
     <<6752, 6752>>, <<6754, 6754>>, <<6757, 6764>>, <<6771, 6780>>,
     <<6783, 6783>>, <<6823, 6823>>, <<6832, 6877>>, <<6880, 6891>>,
     <<6912, 6915>>, <<6964, 6964>>, <<6966, 6970>>, <<6972, 6972>>,
     <<6978, 6978>>, <<7019, 7027>>, <<7040, 7041>>, <<7074, 7077>>,
     <<7080, 7081>>, <<7083, 7085>>, <<7142, 7142>>, <<7144, 7145>>,
     <<7149, 7149>>, <<7151, 7153>>, <<7212, 7219>>, <<7222, 7223>>,
     <<7288, 7293>>, <<7376, 7378>>, <<7380, 7392>>, <<7394, 7400>>,
     <<7405, 7405>>, <<7412, 7412>>, <<7416, 7417>>, <<7468, 7530>>,
     <<7544, 7544>>, <<7579, 7679>>, <<8125, 8125>>, <<8127, 8129>>,
     <<8141, 8143>>, <<8157, 8159>>, <<8173, 8175>>, <<8189, 8190>>,
     <<8203, 8207>>, <<8216, 8217>>, <<8228, 8228>>, <<8231, 8231>>,
     <<8234, 8238>>, <<8288, 8292>>, <<8294, 8303>>, <<8305, 8305>>,
     <<8319, 8319>>, <<8336, 8348>>, <<8400, 8432>>, <<11388, 11389>>,
     <<11503, 11505>>, <<11631, 11631>>, <<11647, 11647>>, <<11744, 11775>>,
     <<11823, 11823>>, <<12293, 12293>>, <<12330, 12333>>, <<12337, 12341>>,
     <<12347, 12347>>, <<12441, 12446>>, <<12540, 12542>>, <<40981, 40981>>,
     <<42232, 42237>>, <<42508, 42508>>, <<42607, 42610>>, <<42612, 42621>>,
     <<42623, 42623>>, <<42652, 42655>>, <<42736, 42737>>, <<42752, 42785>>,
     <<42864, 42864>>, <<42888, 42890>>, <<42993, 42996>>, <<43000, 43001>>,
     <<43010, 43010>>, <<43014, 43014>>, <<43019, 43019>>, <<43045, 43046>>,
     <<43052, 43052>>, <<43204, 43205>>, <<43232, 43249>>, <<43263, 43263>>,
     <<43302, 43309>>, <<43335, 43345>>, <<43392, 43394>>, <<43443, 43443>>,
     <<43446, 43449>>, <<43452, 43453>>, <<43471, 43471>>, <<43493, 43494>>,
     <<43561, 43566>>, <<43569, 43570>>, <<43573, 43574>>, <<43587, 43587>>,
     <<43596, 43596>>, <<43632, 43632>>, <<43644, 43644>>, <<43696, 43696>>,
     <<43698, 43700>>, <<43703, 43704>>, <<43710, 43711>>, <<43713, 43713>>,
     <<43741, 43741>>, <<43756, 43757>>, <<43763, 43764>>, <<43766, 43766>>,
     <<43867, 43871>>, <<43881, 43883>>, <<44005, 44005>>, <<44008, 44008>>,
     <<44013, 44013>>, <<64286, 64286>>, <<64434, 64450>>, <<65024, 65039>>,
     <<65043, 65043>>, <<65056, 65071>>, <<65106, 65106>>, <<65109, 65109>>,
     <<65279, 65279>>, <<65287, 65287>>, <<65294, 65294>>, <<65306, 65306>>,
     <<65342, 65342>>, <<65344, 65344>>, <<65392, 65392>>, <<65438, 65439>>,
     <<65507, 65507>>, <<65529, 65531>>, <<66045, 66045>>, <<66272, 66272>>,
     <<66422, 66426>>, <<67456, 67461>>, <<67463, 67504>>, <<67506, 67514>>,
     <<68097, 68099>>, <<68101, 68102>>, <<68108, 68111>>, <<68152, 68154>>,
     <<68159, 68159>>, <<68325, 68326>>, <<68900, 68903>>, <<68942, 68942>>,
     <<68969, 68973>>, <<68975, 68975>>, <<69291, 69292>>, <<69317, 69317>>,
     <<69370, 69375>>, <<69446, 69456>>, <<69506, 69509>>, <<69633, 69633>>,
     <<69688, 69702>>, <<69744, 69744>>, <<69747, 69748>>, <<69759, 69761>>,
     <<69811, 69814>>, <<69817, 69818>>, <<69821, 69821>>, <<69826, 69826>>,
     <<69837, 69837>>, <<69888, 69890>>, <<69927, 69931>>, <<69933, 69940>>,
     <<70003, 70003>>, <<70016, 70017>>, <<70070, 70078>>, <<70089, 70092>>,
     <<70095, 70095>>, <<70191, 70193>>, <<70196, 70196>>, <<70198, 70199>>,
     <<70206, 70206>>, <<70209, 70209>>, <<70367, 70367>>, <<70371, 70378>>,
     <<70400, 70401>>, <<70459, 70460>>, <<70464, 70464>>, <<70502, 70508>>,
     <<70512, 70516>>, <<70587, 70592>>, <<70606, 70606>>, <<70608, 70608>>,
     <<70610, 70610>>, <<70625, 70626>>, <<70712, 70719>>, <<70722, 70724>>,
     <<70726, 70726>>, <<70750, 70750>>, <<70835, 70840>>, <<70842, 70842>>,
     <<70847, 70848>>, <<70850, 70851>>, <<71090, 71093>>, <<71100, 71101>>,
     <<71103, 71104>>, <<71132, 71133>>, <<71219, 71226>>, <<71229, 71229>>,
     <<71231, 71232>>, <<71339, 71339>>, <<71341, 71341>>, <<71344, 71349>>,
     <<71351, 71351>>, <<71453, 71453>>, <<71455, 71455>>, <<71458, 71461>>,
     <<71463, 71467>>, <<71727, 71735>>, <<71737, 71738>>, <<71995, 71996>>,
     <<71998, 71998>>, <<72003, 72003>>, <<72148, 72151>>, <<72154, 72155>>,
     <<72160, 72160>>, <<72193, 72202>>, <<72243, 72248>>, <<72251, 72254>>,
     <<72263, 72263>>, <<72273, 72278>>, <<72281, 72283>>, <<72330, 72342>>,
     <<72344, 72345>>, <<72544, 72544>>, <<72546, 72548>>, <<72550, 72550>>,
     <<72752, 72758>>, <<72760, 72765>>, <<72767, 72767>>, <<72850, 72871>>,
     <<72874, 72880>>, <<72882, 72883>>, <<72885, 72886>>, <<73009, 73014>>,
     <<73018, 73018>>, <<73020, 73021>>, <<73023, 73029>>, <<73031, 73031>>,
     <<73104, 73105>>, <<73109, 73109>>, <<73111, 73111>>, <<73177, 73177>>,
     <<73459, 73460>>, <<73472, 73473>>, <<73526, 73530>>, <<73536, 73536>>,
     <<73538, 73538>>, <<73562, 73562>>, <<78896, 78912>>, <<78919, 78933>>,
     <<90398, 90409>>, <<90413, 90415>>, <<92912, 92916>>, <<92976, 92982>>,
     <<92992, 92995>>, <<93504, 93506>>, <<93547, 93548>>, <<94031, 94031>>,
     <<94095, 94111>>, <<94176, 94177>>, <<94179, 94180>>, <<94194, 94195>>,
     <<110576, 110579>>, <<110581, 110587>>, <<110589, 110590>>,
     <<113821, 113822>>, <<113824, 113827>>, <<118528, 118573>>,
     <<118576, 118598>>, <<119143, 119145>>, <<119155, 119170>>,
     <<119173, 119179>>, <<119210, 119213>>, <<119362, 119364>>,
     <<121344, 121398>>, <<121403, 121452>>, <<121461, 121461>>,
     <<121476, 121476>>, <<121499, 121503>>, <<121505, 121519>>,
     <<122880, 122886>>, <<122888, 122904>>, <<122907, 122913>>,
     <<122915, 122916>>, <<122918, 122922>>, <<122928, 122989>>,
     <<123023, 123023>>, <<123184, 123197>>, <<123566, 123566>>,
     <<123628, 123631>>, <<124139, 124143>>, <<124398, 124399>>,
     <<124643, 124643>>, <<124646, 124646>>, <<124654, 124655>>,
     <<124661, 124661>>, <<124671, 124671>>, <<125136, 125142>>,
     <<125252, 125259>>, <<127995, 127999>>, <<917505, 917505>>,
     <<917536, 917631>>, <<917760, 917999>>}

InRanges(cp, ranges) == \E r \in ranges : r[1] <= cp /\ cp <= r[2]
Cased(cp) == InRanges(cp, CasedRanges)
CaseIgnorable(cp) == InRanges(cp, CaseIgnorableRanges)

\* the simple lower-case mapping of one code point (below U+00C0 only
\* A to Z have one)
LowerCode(cp) ==
    LET hits == {r \in LowerRanges :
                    r[1] <= cp /\ cp <= r[2] /\ (cp - r[1]) % r[3] = 0}
    IN  IF cp < 192 THEN (IF 65 <= cp /\ cp <= 90 THEN cp + 32 ELSE cp)
        ELSE IF hits = {} THEN cp ELSE cp + (CHOOSE r \in hits : TRUE)[4]

\* Final_Sigma of SpecialCasing.txt: going back from index k (forward from
\* k), the first code point that is not case-ignorable is cased
RECURSIVE CasedBefore(_, _)
CasedBefore(cps, k) ==
    IF k < 1 THEN FALSE
    ELSE IF CaseIgnorable(cps[k]) THEN CasedBefore(cps, k - 1)
    ELSE Cased(cps[k])

RECURSIVE CasedAfter(_, _)
CasedAfter(cps, k) ==
    IF k > Len(cps) THEN FALSE
    ELSE IF CaseIgnorable(cps[k]) THEN CasedAfter(cps, k + 1)
    ELSE Cased(cps[k])

\* the lower-case form of the k-th code point of cps: U+0130 maps to
\* U+0069 U+0307 (the one unconditional mapping of SpecialCasing.txt to
\* more than one code point), U+03A3 to U+03C2 where it is a final sigma
\* and to U+03C3 elsewhere, any other code point to its simple mapping
LowerAt(cps, k) ==
    IF cps[k] = 304 THEN <<105, 775>>
    ELSE IF cps[k] = 931
         THEN IF CasedBefore(cps, k - 1) /\ ~CasedAfter(cps, k + 1)
              THEN <<962>> ELSE <<963>>
         ELSE <<LowerCode(cps[k])>>

RECURSIVE FromCodePoints(_)
FromCodePoints(cps) ==
    IF cps = <<>> THEN ""
    ELSE FromCodePoint(Head(cps)) \o FromCodePoints(Tail(cps))

RECURSIVE LowerFrom(_, _)
LowerFrom(cps, k) ==
    IF k > Len(cps) THEN ""
    ELSE FromCodePoints(LowerAt(cps, k)) \o LowerFrom(cps, k + 1)

\* String.prototype.toLowerCase
toLowerCase(s) == LowerFrom(CodePoints(CodeUnits(s, 1), 1), 1)

\* White space of String.prototype.trim (ECMAScript WhiteSpace and
\* LineTerminator), as code units: tab, line feed, vertical tab, form
\* feed, carriage return, space, U+00A0, U+1680, U+2000 to U+200A, U+2028,
\* U+2029, U+202F, U+205F, U+3000, U+FEFF
WhiteSpace ==
    {9, 10, 11, 12, 13, 32, 160, 5760, 8232, 8233, 8239, 8287, 12288, 65279}
        \cup (8192..8202)

IsSpace(u) == u \in WhiteSpace

RECURSIVE trimStart(_)
trimStart(s) ==
    IF s # "" /\ IsSpace(CodeAt(s, 1))
    THEN trimStart(SubSeq(s, UnitLen(s, 1) + 1, Len(s))) ELSE s

RECURSIVE trimEnd(_)
trimEnd(s) ==
    IF s # "" /\ IsSpace(CodeAt(s, Len(s) - LastUnitLen(s) + 1))
    THEN trimEnd(SubSeq(s, 1, Len(s) - LastUnitLen(s))) ELSE s

trim(s) == trimEnd(trimStart(s))

\* t.includes(k): the code units of k at some code unit of t
includes(t, k) ==
    \E i \in 1..(Len(t) - Len(k) + 1) :
        SubSeq(t, i, i + Len(k) - 1) = k /\ UnitStart(t, i)

\* \w of a regular expression without the u flag, on a code unit:
\* 0 to 9, A to Z, a to z and the underscore
IsWordChar(u) ==
    (48 <= u /\ u <= 57) \/ (65 <= u /\ u <= 90) \/ (97 <= u /\ u <= 122) \/ u = 95

\* the alternatives of /^\/image\b|^\/img\b|^\/photo\b/, in order
CommandTokens == <<"/image", "/img", "/photo">>

\* \b after the first n characters of t, the n-th being a word character
BoundaryAfter(t, n) == Len(t) = n \/ ~IsWordChar(CodeAt(t, n + 1))

\* ^tok\b : tok at the start of t, followed by a word boundary
\* (every token ends in a word character).
TokenAtStart(t, tok) ==
    /\ Len(t) >= Len(tok)
    /\ SubSeq(t, 1, Len(tok)) = tok
    /\ BoundaryAfter(t, Len(tok))

CommandMatches(t) == \E i \in 1..Len(CommandTokens) : TokenAtStart(t, CommandTokens[i])

IMAGE_KEYWORDS ==
    <<"image", "generate", "create", "draw", "paint", "photo", "render",
      "illustrate", "picture", "design">>

\* a test of the text as typed, without lower-casing it
detectImageIntent_CaseSensitive(text) ==
    LET t == text IN
    (\E i \in 1..Len(IMAGE_KEYWORDS) : includes(t, IMAGE_KEYWORDS[i]))
    \/ CommandMatches(t)

detectImageIntent(text) ==
    LET t == toLowerCase(text) IN
    (\E i \in 1..Len(IMAGE_KEYWORDS) : includes(t, IMAGE_KEYWORDS[i]))
    \/ CommandMatches(t)

\* The character at position i of s matches the pattern character c, a
\* letter a to z or the slash, under the i flag without the u flag: the
\* two have the same Canonicalize, the upper-case form of a code unit,
\* taken only when it is one code unit and, for a code unit above U+007F,
\* not below U+0080.  That is so exactly when the code unit at i is c or
\* the letter A to Z of c: the code units above U+007F whose upper-case
\* form is an ASCII letter, U+0131 and U+017F, keep their own value, and
\* U+212A is its own upper-case form.
MatchesIgnoreCase(s, i, c) ==
    /\ CharAt(s, i) # "\\"
    /\ \/ CodeAt(s, i) = CharCode[c]
       \/ 97 <= CharCode[c] /\ CharCode[c] <= 122 /\ CodeAt(s, i) = CharCode[c] - 32

\* ^tok\b under the i flag
TokenAtStartIgnoreCase(p, tok) ==
    /\ Len(p) >= Len(tok)
    /\ \A j \in 1..Len(tok) : MatchesIgnoreCase(p, j, CharAt(tok, j))
    /\ BoundaryAfter(p, Len(tok))

\* prompt.replace(/^\/image\b|^\/img\b|^\/photo\b/ig, '').trim(): the
\* pattern matches at the start only, so at most once
StripCommand(prompt) ==
    LET hits == {i \in 1..Len(CommandTokens) :
                    TokenAtStartIgnoreCase(prompt, CommandTokens[i])}
    IN  IF hits = {} THEN trim(prompt)
        ELSE LET first == CHOOSE i \in hits : \A j \in hits : i <= j
             IN  trim(SubSeq(prompt, Len(CommandTokens[first]) + 1, Len(prompt)))

\* cleaned alone, without the fallback to prompt
BodyPrompt_NoFallback(prompt) == StripCommand(prompt)

\* cleaned || prompt
BodyPrompt(prompt) ==
    LET cleaned == StripCommand(prompt) IN IF cleaned # "" THEN cleaned ELSE prompt

(***************************************************************************)
(* Values and objects.  A value is kept with its type, as the language     *)
(* does: a string, a number, a boolean, null or undefined.  An object is   *)
(* its own property names, in the order the engine lists them (names that  *)
(* are array indices first, ascending, then the others as they were       *)
(* added), and the value of each.                                          *)
(***************************************************************************)
Str(s) == <<"string", s>>
Num(n) == <<"number", n>>
Undefined == <<"undefined", "">>
NullValue == <<"null", "">>

\* ToBoolean(v)
Truthy(v) ==
    IF v[1] = "string" THEN v[2] # ""
    ELSE IF v[1] = "number" THEN v[2] # 0
    ELSE IF v[1] = "boolean" THEN v[2]
    ELSE v[1] \notin {"undefined", "null"}

\* ToString(v), as the + operator applies it to a primitive value
ToStringOf(v) ==
    IF v[1] = "string" THEN v[2]
    ELSE IF v[1] = "number" THEN ToString(v[2])
    ELSE IF v[1] = "boolean" THEN (IF v[2] THEN "true" ELSE "false")
    ELSE v[1]

\* a < b for two strings of digits of the same length
RECURSIVE DigitsLess(_, _)
DigitsLess(a, b) ==
    IF a = "" THEN FALSE
    ELSE LET x == CHOOSE i \in 1..Len(DigitChars) : CharAt(DigitChars, i) = CharAt(a, 1)
             y == CHOOSE i \in 1..Len(DigitChars) : CharAt(DigitChars, i) = CharAt(b, 1)
         IN  x < y \/ (x = y /\ DigitsLess(Tail(a), Tail(b)))

\* a < b for two canonical numeric strings
IndexLess(a, b) == Len(a) < Len(b) \/ (Len(a) = Len(b) /\ DigitsLess(a, b))

\* the property name n is an array index: the canonical form of an
\* integer from 0 to 2^32 - 2
IsArrayIndex(n) ==
    /\ Len(n) >= 1
    /\ \A i \in 1..Len(n) : InChars(CharAt(n, i), DigitChars)
    /\ (Len(n) = 1 \/ CharAt(n, 1) # "0")
    /\ IndexLess(n, "4294967295")

\* the own property names after name n is defined
InsertKey(keys, n) ==
    IF \E i \in 1..Len(keys) : keys[i] = n THEN keys
    ELSE IF IsArrayIndex(n)
         THEN SelectSeq(keys, LAMBDA k : IsArrayIndex(k) /\ IndexLess(k, n))
              \o <<n>>
              \o SelectSeq(keys, LAMBDA k : ~(IsArrayIndex(k) /\ IndexLess(k, n)))
         ELSE Append(keys, n)

\* {}
EmptyObject == [keys |-> <<>>, val |-> [k \in {} |-> Undefined]]

\* { ...o, n: v }
Set(o, n, v) ==
    IF n \in DOMAIN o.val
    THEN [o EXCEPT !.val[n] = v]
    ELSE [keys |-> InsertKey(o.keys, n),
          val  |-> [k \in (DOMAIN o.val) \cup {n} |-> IF k = n THEN v ELSE o.val[k]]]

\* the object a literal, or the text of an object, defines: members is the
\* list of its name and value pairs as written
RECURSIVE Object(_)
Object(members) ==
    IF members = <<>> THEN EmptyObject
    ELSE LET last == members[Len(members)]
         IN  Set(Object(SubSeq(members, 1, Len(members) - 1)), last[1], last[2])

\* o.n
Get(o, n) == IF n \in DOMAIN o.val THEN o.val[n] ELSE Undefined

(***************************************************************************)
(* Messages.  A Message is an object; its optional members (image, ts) are *)
(* absent when the code does not set them.                                 *)
(***************************************************************************)
WelcomeText == "FRIDAY online. Secure channel active."
FailedCaption == "Image generation failed."
ReachPrefix == "FRIDAY couldn't reach the AI. "
NoImageDataMessage ==
    "No image data was returned. The prompt may have been blocked for safety reasons."

\* Date.now(): the clock plays no part in the control flow.
DateNow == 1

\* genId(): the n-th identifier handed out.  The code draws it from
\* Math.random() and the clock; the model hands out distinct identifiers.
genId(n) == "m" \o ToString(n)

WelcomeMsg(id) ==
    [keys |-> <<"id", "from", "text">>,
     val  |-> [id |-> Str(id), from |-> Str("assistant"), text |-> Str(WelcomeText)]]
UserMsg(id, text) ==
    [keys |-> <<"id", "from", "text", "ts">>,
     val  |-> [id |-> Str(id), from |-> Str("user"), text |-> Str(text),
               ts |-> Num(DateNow)]]
PendingMsg(id) ==
    [keys |-> <<"id", "from", "text">>,
     val  |-> [id |-> Str(id), from |-> Str("assistant"), text |-> Str("")]]
FailedImageMsg(id) ==
    [keys |-> <<"id", "from", "text">>,
     val  |-> [id |-> Str(id), from |-> Str("assistant"), text |-> Str(FailedCaption)]]
ImageMsg(id, bodyPrompt, imageUrl) ==
    [keys |-> <<"id", "from", "text", "image", "ts">>,
     val  |-> [id |-> Str(id), from |-> Str("assistant"),
               text |-> Str("Generated image: \"" \o bodyPrompt \o "\""),
               image |-> Str(imageUrl), ts |-> Num(DateNow)]]

\* the inline data the image capability returns, and its data URI
InlineData == [mimeType |-> "image/png", data |-> "iVBOR"]
ImageUrl(d) == "data:" \o d.mimeType \o ";base64," \o d.data

\* !m.image is false
HasImage(m) == Truthy(Get(m, "image"))

Append2(log, m) == log \o <<m>>

\* a map that adds the message when no message has the id
updateById_Upsert(log, id, text) ==
    IF \E i \in 1..Len(log) : Get(log[i], "id") = Str(id)
    THEN [i \in 1..Len(log) |->
            IF Get(log[i], "id") = Str(id) THEN Set(log[i], "text", Str(text)) ELSE log[i]]
    ELSE log \o <<Object(<< <<"id", Str(id)>>, <<"from", Str("assistant")>>,
                            <<"text", Str(text)>> >>)>>

\* prev.map(m => m.id === id ? { ...m, text } : m)
updateById(log, id, text) ==
    [i \in 1..Len(log) |->
        IF Get(log[i], "id") = Str(id) THEN Set(log[i], "text", Str(text)) ELSE log[i]]

HasId(log, id) == \E i \in 1..Len(log) : Get(log[i], "id") = Str(id)

\* String(err): Error.prototype.toString for an Error, the string itself
\* for a string, "undefined" and "null" for these two
StringOf(err) ==
    IF err.type = "string" THEN err.message
    ELSE IF err.type \in {"undefined", "null"} THEN err.type
    ELSE IF err.name = "" THEN err.message
    ELSE IF err.message = "" THEN err.name
    ELSE err.name \o ": " \o err.message

\* err.message alone, without the fallback to String(err)
ErrorDetail_NoFallback(err) == err.message

\* reading err.message throws a TypeError: err is undefined or null
MessageThrows(err) == err.type \in {"undefined", "null"}

\* err.message || String(err)
ErrorDetail(err) ==
    IF err.type = "Error" /\ err.message # "" THEN err.message ELSE StringOf(err)

(***************************************************************************)
(* The history store.  JSON.stringify(messages) is kept as the document    *)
(* it denotes: an array of objects, each the list of its members as name   *)
(* and literal, in the order they are written; a literal is a string, a    *)
(* number, true, false or null.                                            *)
(***************************************************************************)
JSONString(s) == <<"string", s>>
JSONNumber(n) == <<"number", n>>

\* the literal JSON.stringify writes for value v
JSONLiteral(v) ==
    IF v[1] = "string" THEN JSONString(v[2])
    ELSE IF v[1] = "number" THEN JSONNumber(v[2])
    ELSE v

\* JSON.stringify of one message: its own properties in their order, a
\* property whose value is undefined left out
MsgJSON(m) ==
    LET names == IF \A k \in DOMAIN m.val : m.val[k][1] # "undefined" THEN m.keys
                 ELSE SelectSeq(m.keys, LAMBDA k : m.val[k][1] # "undefined")
    IN  [i \in 1..Len(names) |-> <<names[i], JSONLiteral(m.val[names[i]])>>]

JSONstringify(log) == [i \in 1..Len(log) |-> MsgJSON(log[i])]

\* saveHistory(messages) on a store holding r: what the store holds under
\* STORAGE_KEY afterwards.  When setItem throws (the quota is exceeded) the
\* catch block logs a warning and the store keeps what it held.
saveHistory(r, log, throws) == IF throws THEN r ELSE Some(JSONstringify(log))

\* A history saved by an earlier session of the program.
SavedLog ==
    << WelcomeMsg("s1"),
       UserMsg("s2", "/img cat"),
       ImageMsg("s3", "cat", ImageUrl(InlineData)),
       UserMsg("s4", "hi") >>

\* A stored text that is not the serialization of an array: text
\* JSON.parse rejects ("unparsable"), or the serialization of the
\* non-array value v ("value").
OtherText(kind, v) == <<kind, v>>

\* the value JSON.parse reads from literal l
ValueOfJSON(l) ==
    IF l[1] = "string" THEN Str(l[2])
    ELSE IF l[1] = "number" THEN Num(l[2])
    ELSE l

\* JSON.parse of an array document: each object of the text becomes the
\* object its members define, a repeated name keeping its first place and
\* its last value
MsgOfJSON(o) == Object([k \in 1..Len(o) |-> <<o[k][1], ValueOfJSON(o[k][2])>>])

JSONparse(doc) == [i \in 1..Len(doc) |-> MsgOfJSON(doc[i])]

\* what the store holds when the program starts: the history of an earlier
\* session (the state of a first start is reached again by clearHistory)
InitialStores == {Some(JSONstringify(SavedLog))}

\* what the store can hold at a start: nothing, text that is not JSON, the
\* JSON string "hello", the empty array, the history of an earlier session,
\* the history after one send
StartStores ==
    {Null, OtherText("unparsable", "{oops"), OtherText("value", "hello"),
     Some(JSONstringify(<<>>)), Some(JSONstringify(SavedLog)),
     Some(JSONstringify(<<WelcomeMsg("x1"), UserMsg("x2", "yo")>>))}

\* Histories a start can find in the store: that of an earlier session;
\* one whose last user message has no text member, and one whose last user
\* message has the text null (written by something other than
\* saveHistory, which always writes a string); one with no user message.
RetryStores ==
    {Some(JSONstringify(SavedLog)),
     Some(JSONstringify(<<WelcomeMsg("r1"), UserMsg("r2", "yo"),
                          Object(<< <<"id", Str("r3")>>, <<"from", Str("user")>> >>)>>)),
     Some(JSONstringify(<<WelcomeMsg("r1"), UserMsg("r2", "yo"),
                          Object(<< <<"id", Str("r3")>>, <<"from", Str("user")>>,
                                    <<"text", NullValue>> >>)>>)),
     Some(JSONstringify(<<WelcomeMsg("r1")>>))}

\* loadHistory() reading stored value r; id is the identifier genId() returns
loadHistory(r, id) ==
    IF Len(r) = 0 THEN <<WelcomeMsg(id)>>
    ELSE IF Len(r) = 2
         THEN (IF r[1] = "value" THEN r[2] ELSE <<WelcomeMsg(id)>>)
    ELSE JSONparse(r[1])

(***************************************************************************)
(* The chat session.                                                       *)
(***************************************************************************)
Role(m) == IF Get(m, "from") = Str("user") THEN "user" ELSE "model"

\* the history built without slice(1)
ChatHistory_NoSlice(log) ==
    LET kept == SelectSeq(log, LAMBDA m : ~HasImage(m))
    IN  [i \in 1..Len(kept) |-> [role |-> Role(kept[i]), text |-> Get(kept[i], "text")]]

\* messages.slice(1).filter(m => !m.image).map(...)
ChatHistory(log) ==
    LET rest == SubSeq(log, 2, Len(log))
        kept == SelectSeq(rest, LAMBDA m : ~HasImage(m))
    IN  [i \in 1..Len(kept) |-> [role |-> Role(kept[i]), text |-> Get(kept[i], "text")]]

\* ai.chats.create({history}): a new session object, told apart by gen
CreateChat(gen, log) == [gen |-> gen, history |-> ChatHistory(log)]

\* The effect of lines 93-106 runs when messages.length === 1 changes.
ChatAfterRender(old, new, chat) ==
    IF (Len(old) = 1) # (Len(new) = 1) THEN CreateChat(chat.gen + 1, new) ELSE chat

(***************************************************************************)
(* Calls of handleSend.  Slot c holds the c-th accepted call: its locals   *)
(* (text, assistantMsgId, fullReply, bodyPrompt, the ticker's p), where it *)
(* is suspended, and how it ended.                                         *)
(***************************************************************************)
CallIds == 1..MaxSends

NoCall ==
    [kind |-> "none", pc |-> "idle", text |-> "", assistantMsgId |-> "",
     fullReply |-> "", nfrag |-> 0, session |-> 0, outcome |-> "none",
     err |-> "", bodyPrompt |-> "", p |-> 0, ticking |-> FALSE, nticks |-> 0,
     orphaned |-> FALSE, uncaught |-> FALSE]

\* history kept for the proofs: orphaned records that an update of the
\* call found no message with its id, uncaught that the catch block of
\* the call threw and the call's promise was rejected
Missed(log, id) == ~HasId(log, id)

\* a render whose save effect does not run
Render_NoSave(new) ==
    /\ messages' = new
    /\ storage' = storage
    /\ storeFull' = storeFull
    /\ chatRef' = ChatAfterRender(messages, new, chatRef)

\* The effect of line 89 after a render with log new, on a store holding
\* r: saveHistory, whose setItem throws when the store is full.
SaveEffect(r, new) ==
    /\ storage' = saveHistory(r, new, storeFull)
    /\ storeFull' = storeFull

\* A render after setMessages: the log changes, the effect of line 89
\* saves it, and the effect of lines 93-106 may rebuild the chat session.
Render(new) ==
    /\ messages' = new
    /\ SaveEffect(storage, new)
    /\ chatRef' = ChatAfterRender(messages, new, chatRef)

(***************************************************************************)
(* Voice capture.  Slot i holds the i-th recognition object startListening *)
(* created: where the session it runs stands, the utterance it captured,   *)
(* and whether stop() was called on it, its onerror ran, and its onresult  *)
(* delivered the transcript.                                               *)
(*   starting : start() called, onstart not yet fired                      *)
(*   running  : capturing                                                  *)
(*   heard    : an utterance captured, onresult not yet fired              *)
(*   aborted  : ended by the capability, onerror not yet fired             *)
(*   closing  : over, onend not yet fired                                  *)
(*   ended    : onend fired; no handler of the object runs again           *)
(* The capability is present (window.SpeechRecognition is defined).        *)
(***************************************************************************)
RecIds == 1..MaxSessions

NoRec == [st |-> "none", utt |-> 0, stopped |-> FALSE, err |-> FALSE, got |-> FALSE]

\* ev.results[0][0].transcript of the k-th utterance
Transcript(k) == "u" \o ToString(k)

Created == {i \in RecIds : recs[i].st # "none"}

\* startListening.  A capability may run the new session beside the ones
\* already open, or abort those when the new one starts (keepsOthers).
startListening(keepsOthers) ==
    /\ Cardinality(Created) < MaxSessions
    /\ LET r == Cardinality(Created) + 1 IN
       /\ recs' = [i \in RecIds |->
                     IF i = r THEN [NoRec EXCEPT !.st = "starting"]
                     ELSE IF ~keepsOthers /\ recs[i].st \in {"starting", "running", "heard"}
                          THEN [recs[i] EXCEPT !.st = "aborted"]
                          ELSE recs[i]]
       /\ speechRef' = r
    /\ UNCHANGED <<listening, nutt>>

\* stopListening: stop() ends capture; a session that has captured an
\* utterance still returns its result, one that is over ignores the call.
stopListening ==
    /\ recs' = IF speechRef = 0 THEN recs
               ELSE [recs EXCEPT ![speechRef] =
                       IF @.st \in {"starting", "running"}
                       THEN [@ EXCEPT !.st = "closing", !.stopped = TRUE]
                       ELSE IF @.st = "heard" THEN [@ EXCEPT !.stopped = TRUE]
                       ELSE @]
    /\ listening' = FALSE
    /\ UNCHANGED <<speechRef, nutt>>

\* onClick of the microphone button
toggleListening ==
    /\ IF listening THEN stopListening
       ELSE \E keepsOthers \in BOOLEAN : startListening(keepsOthers)
    /\ UNCHANGED <<messages, input, isThinking, isGenerating, lastError, progress,
                   chatRef, storage, storeFull, calls, ncalls, nextId, retryTimers,
                   resetTimers, nclears, unhandled>>

\* r.onstart
onstart(i) ==
    /\ recs[i].st = "starting"
    /\ recs' = [recs EXCEPT ![i].st = "running"]
    /\ listening' = TRUE
    /\ UNCHANGED <<messages, input, isThinking, isGenerating, lastError, progress,
                   chatRef, storage, storeFull, calls, ncalls, nextId, retryTimers,
                   resetTimers, nclears, speechRef, nutt, unhandled>>

\* the user says something: every session that is capturing hears it
Speak ==
    /\ nutt < MaxUtterances
    /\ \E i \in RecIds : recs[i].st = "running"
    /\ nutt' = nutt + 1
    /\ recs' = [i \in RecIds |->
                  IF recs[i].st = "running"
                  THEN [recs[i] EXCEPT !.st = "heard", !.utt = nutt + 1]
                  ELSE recs[i]]
    /\ UNCHANGED <<messages, input, isThinking, isGenerating, lastError, progress,
                   chatRef, storage, storeFull, calls, ncalls, nextId, retryTimers,
                   resetTimers, nclears, listening, speechRef, unhandled>>

\* r.onresult: setInput(prev => prev ? prev + ' ' + t : t)
onresult(i) ==
    /\ recs[i].st = "heard"
    /\ recs' = [recs EXCEPT ![i].st = "closing", ![i].got = TRUE]
    /\ input' = IF Truthy(input)
                THEN Str(ToStringOf(input) \o " " \o Transcript(recs[i].utt))
                ELSE Str(Transcript(recs[i].utt))
    /\ UNCHANGED <<messages, isThinking, isGenerating, lastError, progress,
                   chatRef, storage, storeFull, calls, ncalls, nextId, retryTimers,
                   resetTimers, nclears, listening, speechRef, nutt, unhandled>>

\* r.onerror: the session failed or was aborted
onerror(i) ==
    /\ recs[i].st \in {"starting", "running", "heard", "aborted"}
    /\ recs' = [recs EXCEPT ![i].st = "closing", ![i].err = TRUE]
    /\ listening' = FALSE
    /\ UNCHANGED <<messages, input, isThinking, isGenerating, lastError, progress,
                   chatRef, storage, storeFull, calls, ncalls, nextId, retryTimers,
                   resetTimers, nclears, speechRef, nutt, unhandled>>

\* r.onend
onend(i) ==
    /\ recs[i].st = "closing"
    /\ recs' = [recs EXCEPT ![i].st = "ended"]
    /\ listening' = FALSE
    /\ UNCHANGED <<messages, input, isThinking, isGenerating, lastError, progress,
                   chatRef, storage, storeFull, calls, ncalls, nextId, retryTimers,
                   resetTimers, nclears, speechRef, nutt, unhandled>>

\* The component mounted on a store holding r: the log loadHistory
\* returned, saved again by the effect of line 89, and the chat session
\* the effect of lines 93-106 created.
InitOn(r) ==
        /\ messages = loadHistory(r, genId(1))
        /\ storage = saveHistory(r, loadHistory(r, genId(1)), FALSE)
        /\ chatRef = CreateChat(1, loadHistory(r, genId(1)))
        /\ input = Str("")
        /\ isThinking = FALSE
        /\ isGenerating = FALSE
        /\ lastError = Null
        /\ progress = 0
        /\ calls = [c \in CallIds |-> NoCall]
        /\ ncalls = 0
        /\ nextId = 2
        /\ retryTimers = 0
        /\ resetTimers = 0
        /\ nclears = 0
        /\ storeFull = FALSE
        /\ listening = FALSE
        /\ speechRef = 0
        /\ recs = [i \in RecIds |-> NoRec]
        /\ nutt = 0
        /\ unhandled = FALSE

Init == \E r \in InitialStores : InitOn(r)

\* The component when its state initializers have run and its first
\* render has not been committed: the log is what loadHistory returned,
\* the store is as it was found, no chat session exists yet.
InitLoad ==
    \E r \in StartStores :
        /\ messages = loadHistory(r, genId(1))
        /\ storage = r
        /\ chatRef = Null
        /\ input = Str("")
        /\ isThinking = FALSE
        /\ isGenerating = FALSE
        /\ lastError = Null
        /\ progress = 0
        /\ calls = [c \in CallIds |-> NoCall]
        /\ ncalls = 0
        /\ nextId = 2
        /\ retryTimers = 0
        /\ resetTimers = 0
        /\ nclears = 0
        /\ storeFull = FALSE
        /\ listening = FALSE
        /\ speechRef = 0
        /\ recs = [i \in RecIds |-> NoRec]
        /\ nutt = 0
        /\ unhandled = FALSE

\* The first render and its effects: saveHistory(messages) and the
\* creation of the chat session.  The render calls messages.map, which
\* throws when loadHistory returned a value that is not an array (the
\* store, untouched since, tells): nothing is mounted then.
Mount ==
    /\ chatRef = Null
    /\ ~(Len(storage) = 2 /\ storage[1] = "value")
    /\ SaveEffect(storage, messages)
    /\ chatRef' = CreateChat(1, messages)
    /\ UNCHANGED <<messages, input, isThinking, isGenerating, lastError, progress,
                   calls, ncalls, nextId, retryTimers, resetTimers, nclears,
                   voiceVars, unhandled>>

\* onChange of the composer
SetInput(v) ==
    /\ input' = Str(v)
    /\ UNCHANGED <<messages, isThinking, isGenerating, lastError, progress,
                   chatRef, storage, storeFull, calls, ncalls, nextId, retryTimers,
                   resetTimers, nclears, voiceVars, unhandled>>

\* handleSend up to its first await (the text branch suspends at
\* sendMessageStream, the image branch inside generateImageFlow at
\* generateContent).  retryTimers is left to the caller.  When the
\* composer holds a value that is not a string, input.trim() throws a
\* TypeError: the promise handleSend returns is rejected, nothing handles
\* it (unhandled records that), and no state is set.
handleSend ==
    LET text == trim(input[2]) IN
    IF input[1] # "string"
    THEN /\ unhandled' = TRUE
         /\ UNCHANGED <<messages, input, isThinking, isGenerating, lastError,
                        progress, chatRef, storage, storeFull, calls, ncalls, nextId,
                        resetTimers, nclears, voiceVars>>
    ELSE IF text = "" \/ chatRef = Null
    THEN UNCHANGED <<messages, input, isThinking, isGenerating, lastError,
                     progress, chatRef, storage, storeFull, calls, ncalls, nextId,
                     resetTimers, nclears, voiceVars, unhandled>>
    ELSE
      /\ ncalls < MaxSends
      /\ LET c == ncalls + 1
             withUser == Append2(messages, UserMsg(genId(nextId), text))
         IN
         IF detectImageIntent(text)
         THEN \* generateImageFlow(text)
              /\ Render(withUser)
              /\ input' = Str("")
              /\ isGenerating' = TRUE
              /\ lastError' = Null
              /\ progress' = 6
              /\ calls' = [calls EXCEPT ![c] =
                            [NoCall EXCEPT !.kind = "image", !.pc = "pending",
                                           !.text = text,
                                           !.bodyPrompt = BodyPrompt(text),
                                           !.p = 10, !.ticking = TRUE]]
              /\ ncalls' = c
              /\ nextId' = nextId + 1
              /\ UNCHANGED <<isThinking, resetTimers, nclears, voiceVars, unhandled>>
         ELSE \* text chat
              /\ Render(Append2(withUser, PendingMsg(genId(nextId + 1))))
              /\ input' = Str("")
              /\ isThinking' = TRUE
              /\ lastError' = Null
              /\ calls' = [calls EXCEPT ![c] =
                            [NoCall EXCEPT !.kind = "text", !.pc = "pending",
                                           !.text = text,
                                           !.assistantMsgId = genId(nextId + 1),
                                           !.session = chatRef.gen]]
              /\ ncalls' = c
              /\ nextId' = nextId + 2
              /\ UNCHANGED <<isGenerating, progress, resetTimers, nclears, voiceVars, unhandled>>

\* the Send button (line 306), enabled unless !input || isThinking ||
\* isGenerating, submits the form
SubmitButton ==
    /\ Truthy(input) /\ ~isThinking /\ ~isGenerating
    /\ handleSend
    /\ UNCHANGED retryTimers

\* a retryLast that takes the first user message of the log
retryLast_FirstUser ==
    /\ LET users == {i \in 1..Len(messages) : Get(messages[i], "from") = Str("user")} IN
       IF users = {}
       THEN UNCHANGED <<input, retryTimers>>
       ELSE LET first == CHOOSE i \in users : \A j \in users : i <= j IN
            /\ retryTimers < MaxRetryTimers
            /\ input' = Get(messages[first], "text")
            /\ retryTimers' = retryTimers + 1
    /\ UNCHANGED <<messages, isThinking, isGenerating, lastError, progress,
                   chatRef, storage, storeFull, calls, ncalls, nextId, resetTimers, nclears, voiceVars, unhandled>>

\* retryLast: with no message from 'user' in the log it returns at once;
\* otherwise setInput(lastUser.text) puts the text member of the last one
\* in the composer, whatever value it is (undefined when the message has
\* none), and a timeout is set that submits the form.  (The bound on
\* pending timeouts applies where one is set.)
retryLast ==
    /\ LET users == {i \in 1..Len(messages) : Get(messages[i], "from") = Str("user")} IN
       IF users = {}
       THEN UNCHANGED <<input, retryTimers>>
       ELSE LET last == CHOOSE i \in users : \A j \in users : j <= i IN
            /\ retryTimers < MaxRetryTimers
            /\ input' = Get(messages[last], "text")
            /\ retryTimers' = retryTimers + 1
    /\ UNCHANGED <<messages, isThinking, isGenerating, lastError, progress,
                   chatRef, storage, storeFull, calls, ncalls, nextId, resetTimers, nclears, voiceVars, unhandled>>

\* the setTimeout(..., 0) of retryLast fires: a submit event on the form
RetrySubmit ==
    /\ retryTimers > 0
    /\ retryTimers' = retryTimers - 1
    /\ handleSend

\* a fragment written to the message of the latest call instead of the
\* call's own (assistantMsgId kept in a shared slot)
StreamFragment_SharedId(c) ==
    /\ calls[c].kind = "text" /\ calls[c].pc = "pending"
    /\ calls[c].nfrag < MaxFrags
    /\ LET reply == calls[c].fullReply \o Fragment(calls[c].nfrag + 1) IN
       /\ calls' = [calls EXCEPT ![c].fullReply = reply, ![c].nfrag = @ + 1,
                                 ![c].orphaned = @ \/ Missed(messages, calls[ncalls].assistantMsgId)]
       /\ Render(updateById(messages, calls[ncalls].assistantMsgId, reply))
    /\ UNCHANGED <<input, isThinking, isGenerating, lastError, progress,
                   ncalls, nextId, retryTimers, resetTimers, nclears, voiceVars, unhandled>>

\* for await (const chunk of stream): one fragment arrives
StreamFragment(c) ==
    /\ calls[c].kind = "text" /\ calls[c].pc = "pending"
    /\ calls[c].nfrag < MaxFrags
    /\ LET reply == calls[c].fullReply \o Fragment(calls[c].nfrag + 1) IN
       /\ calls' = [calls EXCEPT ![c].fullReply = reply, ![c].nfrag = @ + 1,
                                 ![c].orphaned = @ \/ Missed(messages, calls[c].assistantMsgId)]
       /\ Render(updateById(messages, calls[c].assistantMsgId, reply))
    /\ UNCHANGED <<input, isThinking, isGenerating, lastError, progress,
                   ncalls, nextId, retryTimers, resetTimers, nclears, voiceVars, unhandled>>

\* the stream ends normally: finally
StreamEnd(c) ==
    /\ calls[c].kind = "text" /\ calls[c].pc = "pending"
    /\ calls' = [calls EXCEPT ![c].pc = "done", ![c].outcome = "ok"]
    /\ isThinking' = FALSE
    /\ UNCHANGED <<messages, input, isGenerating, lastError, progress, chatRef,
                   storage, storeFull, ncalls, nextId, retryTimers, resetTimers, nclears, voiceVars, unhandled>>

\* a catch block that sends the text again after the failure
StreamFail_Resend(c, err) ==
    /\ calls[c].kind = "text" /\ calls[c].pc = "pending"
    /\ calls[c].outcome = "none"
    /\ IF MessageThrows(err)
       THEN /\ calls' = [calls EXCEPT ![c].outcome = "failed", ![c].uncaught = TRUE]
            /\ UNCHANGED <<messages, storage, storeFull, chatRef, lastError>>
       ELSE /\ calls' = [calls EXCEPT ![c].outcome = "failed",
                                      ![c].err = ErrorDetail(err),
                                      ![c].orphaned = @ \/ Missed(messages,
                                                                  calls[c].assistantMsgId)]
            /\ Render(updateById(messages, calls[c].assistantMsgId,
                                 ReachPrefix \o ErrorDetail(err)))
            /\ lastError' = Some(ErrorDetail(err))
    /\ UNCHANGED <<input, isThinking, isGenerating, progress, ncalls, nextId,
                   retryTimers, resetTimers, nclears, voiceVars, unhandled>>

\* sendMessageStream rejects, or the stream throws, with err: catch and
\* finally.  When reading err.message throws, the catch block stops before
\* its setMessages and setLastError, and finally still runs.
StreamFail(c, err) ==
    /\ calls[c].kind = "text" /\ calls[c].pc = "pending"
    /\ IF MessageThrows(err)
       THEN /\ calls' = [calls EXCEPT ![c].pc = "done", ![c].outcome = "failed",
                                      ![c].uncaught = TRUE]
            /\ UNCHANGED <<messages, storage, storeFull, chatRef, lastError>>
       ELSE /\ calls' = [calls EXCEPT ![c].pc = "done", ![c].outcome = "failed",
                                      ![c].err = ErrorDetail(err),
                                      ![c].orphaned = @ \/ Missed(messages,
                                                                  calls[c].assistantMsgId)]
            /\ Render(updateById(messages, calls[c].assistantMsgId,
                                 ReachPrefix \o ErrorDetail(err)))
            /\ lastError' = Some(ErrorDetail(err))
    /\ isThinking' = FALSE
    /\ UNCHANGED <<input, isGenerating, progress, ncalls, nextId, retryTimers,
                   resetTimers, nclears, voiceVars, unhandled>>

\* the interval of fakeProgress fires
Tick(c, inc) ==
    /\ calls[c].ticking
    /\ calls[c].nticks < MaxTicks
    /\ LET p2 == IF calls[c].p + inc > 88 THEN 88 ELSE calls[c].p + inc IN
       /\ calls' = [calls EXCEPT ![c].p = p2, ![c].nticks = @ + 1]
       /\ progress' = p2
    /\ UNCHANGED <<messages, input, isThinking, isGenerating, lastError, chatRef,
                   storage, storeFull, ncalls, nextId, retryTimers, resetTimers, nclears, voiceVars, unhandled>>

\* generateContent resolves, with or without inline data
ImageResponse(c, hasData) ==
    /\ calls[c].kind = "image" /\ calls[c].pc = "pending"
    /\ IF hasData
       THEN /\ Render(Append2(messages,
                       ImageMsg(genId(nextId), calls[c].bodyPrompt, ImageUrl(InlineData))))
            /\ progress' = 100
            /\ calls' = [calls EXCEPT ![c].pc = "done", ![c].outcome = "ok",
                                      ![c].ticking = FALSE]
            /\ UNCHANGED lastError
       ELSE /\ Render(Append2(messages, FailedImageMsg(genId(nextId))))
            /\ progress' = 80
            /\ calls' = [calls EXCEPT ![c].pc = "done", ![c].outcome = "failed",
                                      ![c].err = ErrorDetail(ErrorOf("Error", NoImageDataMessage)),
                                      ![c].ticking = FALSE]
            /\ lastError' = Some(ErrorDetail(ErrorOf("Error", NoImageDataMessage)))
    /\ nextId' = nextId + 1
    /\ isGenerating' = FALSE
    /\ resetTimers' = resetTimers + 1
    /\ UNCHANGED <<input, isThinking, ncalls, retryTimers, nclears, voiceVars, unhandled>>

\* a catch block that leaves the interval running
ImageReject_NoClear(c, err) ==
    /\ calls[c].kind = "image" /\ calls[c].pc = "pending"
    /\ Render(Append2(messages, FailedImageMsg(genId(nextId))))
    /\ IF MessageThrows(err)
       THEN /\ calls' = [calls EXCEPT ![c].pc = "done", ![c].outcome = "failed",
                                      ![c].uncaught = TRUE]
            /\ UNCHANGED lastError
       ELSE /\ calls' = [calls EXCEPT ![c].pc = "done", ![c].outcome = "failed",
                                      ![c].err = ErrorDetail(err)]
            /\ lastError' = Some(ErrorDetail(err))
    /\ nextId' = nextId + 1
    /\ isGenerating' = FALSE
    /\ resetTimers' = resetTimers + 1
    /\ UNCHANGED <<input, isThinking, progress, ncalls, retryTimers, nclears, voiceVars, unhandled>>

\* a catch and finally that set no delayed reset
ImageReject_NoReset(c, err) ==
    /\ calls[c].kind = "image" /\ calls[c].pc = "pending"
    /\ Render(Append2(messages, FailedImageMsg(genId(nextId))))
    /\ IF MessageThrows(err)
       THEN /\ calls' = [calls EXCEPT ![c].pc = "done", ![c].outcome = "failed",
                                      ![c].ticking = FALSE, ![c].uncaught = TRUE]
            /\ UNCHANGED lastError
       ELSE /\ calls' = [calls EXCEPT ![c].pc = "done", ![c].outcome = "failed",
                                      ![c].err = ErrorDetail(err), ![c].ticking = FALSE]
            /\ lastError' = Some(ErrorDetail(err))
    /\ nextId' = nextId + 1
    /\ isGenerating' = FALSE
    /\ UNCHANGED <<input, isThinking, progress, ncalls, retryTimers, nclears,
                   resetTimers, voiceVars, unhandled>>

\* generateContent rejects with err: catch and finally.  The catch block
\* cancels the ticker and appends the failure message before it reads
\* err.message; when that read throws, setLastError is not reached.
ImageReject(c, err) ==
    /\ calls[c].kind = "image" /\ calls[c].pc = "pending"
    /\ Render(Append2(messages, FailedImageMsg(genId(nextId))))
    /\ IF MessageThrows(err)
       THEN /\ calls' = [calls EXCEPT ![c].pc = "done", ![c].outcome = "failed",
                                      ![c].ticking = FALSE, ![c].uncaught = TRUE]
            /\ UNCHANGED lastError
       ELSE /\ calls' = [calls EXCEPT ![c].pc = "done", ![c].outcome = "failed",
                                      ![c].err = ErrorDetail(err), ![c].ticking = FALSE]
            /\ lastError' = Some(ErrorDetail(err))
    /\ nextId' = nextId + 1
    /\ isGenerating' = FALSE
    /\ resetTimers' = resetTimers + 1
    /\ UNCHANGED <<input, isThinking, progress, ncalls, retryTimers, nclears, voiceVars, unhandled>>

\* setTimeout(() => setProgress(0), 900) fires
ResetProgress ==
    /\ resetTimers > 0
    /\ resetTimers' = resetTimers - 1
    /\ progress' = 0
    /\ UNCHANGED <<messages, input, isThinking, isGenerating, lastError, chatRef,
                   storage, storeFull, calls, ncalls, nextId, retryTimers, nclears, voiceVars, unhandled>>

\* clearHistory that leaves the log empty
clearHistory_Empty ==
    /\ nclears < MaxClears
    /\ nclears' = nclears + 1
    /\ Render(<<>>)
    /\ UNCHANGED <<input, isThinking, isGenerating, lastError, progress, calls,
                   ncalls, nextId, retryTimers, resetTimers, voiceVars, unhandled>>

\* clearHistory, confirmed.  removeItem empties the store, and the render
\* that follows setMessages([w]) saves the new log again.
clearHistory ==
    /\ nclears < MaxClears
    /\ nclears' = nclears + 1
    /\ messages' = <<WelcomeMsg(genId(nextId))>>
    /\ SaveEffect(Null, <<WelcomeMsg(genId(nextId))>>)
    /\ chatRef' = ChatAfterRender(messages, <<WelcomeMsg(genId(nextId))>>, chatRef)
    /\ nextId' = nextId + 1
    /\ UNCHANGED <<input, isThinking, isGenerating, lastError, progress, calls,
                   ncalls, retryTimers, resetTimers, voiceVars, unhandled>>

\* The quota of the origin's storage is reached, or room is made again
\* (by the size of what is stored, other keys, the user's settings):
\* setItem throws while the store is full.
StorageQuota(full) ==
    /\ storeFull # full
    /\ storeFull' = full
    /\ UNCHANGED <<messages, input, isThinking, isGenerating, lastError, progress,
                   chatRef, storage, calls, ncalls, nextId, retryTimers,
                   resetTimers, nclears, voiceVars, unhandled>>

Next ==
    \/ \E v \in Inputs : SetInput(v)
    \/ SubmitButton
    \/ retryLast
    \/ RetrySubmit
    \/ \E c \in CallIds : StreamFragment(c)
    \/ \E c \in CallIds : StreamEnd(c)
    \/ \E c \in CallIds, err \in Rejections : StreamFail(c, err)
    \/ \E c \in CallIds, d \in BOOLEAN : ImageResponse(c, d)
    \/ \E c \in CallIds, err \in Rejections : ImageReject(c, err)
    \/ clearHistory

Spec == Init /\ [][Next]_vars

\* Failures of every kind: sends from the Send button, one at a time, whose
\* call is rejected with an Error of some name, with or without a message,
\* or completes.
NextFail ==
    \/ \E v \in Inputs : SetInput(v)
    \/ SubmitButton
    \/ \E c \in CallIds : StreamFragment(c)
    \/ \E c \in CallIds : StreamEnd(c)
    \/ \E c \in CallIds, err \in Thrown : StreamFail(c, err)
    \/ \E c \in CallIds, d \in BOOLEAN : ImageResponse(c, d)
    \/ \E c \in CallIds, err \in Thrown : ImageReject(c, err)

SpecFail == Init /\ [][NextFail]_vars

\* The log and a store that can be full: sends from the Send button,
\* their fragments, ends and failures, image completions and clears.
NextStore ==
    \/ \E v \in Inputs : SetInput(v)
    \/ SubmitButton
    \/ \E c \in CallIds : StreamFragment(c)
    \/ \E c \in CallIds : StreamEnd(c)
    \/ \E c \in CallIds, err \in Rejections : StreamFail(c, err)
    \/ \E c \in CallIds : ImageResponse(c, TRUE)
    \/ clearHistory
    \/ \E full \in BOOLEAN : StorageQuota(full)

SpecStore == Init /\ [][NextStore]_vars

\* the program with the timer callbacks of the image flow
NextProgress ==
    \/ Next
    \/ \E c \in CallIds, inc \in TickIncs : Tick(c, inc)
    \/ ResetProgress

SpecProgress == Init /\ [][NextProgress]_vars

\* The image flow with its timer callbacks: the user types image requests
\* and sends them with the Send button, so every send runs
\* generateImageFlow and a flow starts when the one before it has returned
\* (its delayed reset may still be pending).
ImageInputs == {v \in Inputs : detectImageIntent(trim(v))}

NextImage ==
    \/ \E v \in ImageInputs : SetInput(v)
    \/ SubmitButton
    \/ \E c \in CallIds, d \in BOOLEAN : ImageResponse(c, d)
    \/ \E c \in CallIds, err \in Rejections \cup {ThrownUndefined} : ImageReject(c, err)
    \/ \E c \in CallIds, inc \in TickIncs : Tick(c, inc)
    \/ ResetProgress

SpecImage == Init /\ [][NextImage]_vars

\* a timeout that has been set does fire
SpecImageFair == SpecImage /\ WF_vars(ResetProgress)

\* Routing and prompt preparation over a range of submitted texts: plain
\* text, keywords in either case and inside a word, each command token
\* alone, followed by a prompt, followed by a word character, in upper
\* case, after leading spaces, and not at the start; a form feed alone,
\* and white space beyond U+00FF around a command; a token followed by a
\* character that is not a word character; a token followed by a letter
\* beyond U+00FF whose lower-case form is a word character (U+212A, the
\* Kelvin sign, and U+0130, capital I with dot above) or is not (U+03A9,
\* capital omega); a keyword written with U+0130; a token followed by
\* U+212A in a text that holds a keyword.
RoutingInputs ==
    {"hello", "Draw a cat", "redesign", "/img", "/IMG cat", "/imgx",
     "/img_1", " /img dog ", "x /img", "/photo", "/Image  sky",
     "\f", "\\u2003/img\fcat\\u3000", "/img-x",
     "/img\\u212A", "/IMG\\u0130", "/Img\\u03A9", "PA\\u0130NT",
     "/img\\u212A draw"}

NextRouting ==
    \/ \E v \in RoutingInputs : SetInput(v)
    \/ SubmitButton
    \/ \E c \in CallIds : StreamEnd(c)
    \/ \E c \in CallIds : ImageResponse(c, TRUE)

SpecRouting == Init /\ [][NextRouting]_vars

\* Voice capture with the composer: the microphone button, the events of
\* the recognition sessions, the user speaking and typing.
NextVoice ==
    \/ toggleListening
    \/ \E i \in RecIds : onstart(i)
    \/ Speak
    \/ \E i \in RecIds : onresult(i)
    \/ \E i \in RecIds : onerror(i)
    \/ \E i \in RecIds : onend(i)
    \/ \E v \in Inputs : SetInput(v)

SpecVoice == Init /\ [][NextVoice]_vars

\* The program from its start on any store content: the first render,
\* then sends, their completions and clears.
NextLoad ==
    \/ Mount
    \/ chatRef # Null /\ \E v \in Inputs : SetInput(v)
    \/ chatRef # Null /\ SubmitButton
    \/ \E c \in CallIds : StreamEnd(c)
    \/ \E c \in CallIds : ImageResponse(c, TRUE)
    \/ chatRef # Null /\ clearHistory

SpecLoad == InitLoad /\ [][NextLoad]_vars

\* Retries on the histories of RetryStores: the user types, sends, retries
\* and clears; the queued submits fire; the calls complete.
InitRetry == \E r \in RetryStores : InitOn(r)

NextRetry ==
    \/ \E v \in Inputs : SetInput(v)
    \/ SubmitButton
    \/ retryLast
    \/ RetrySubmit
    \/ \E c \in CallIds : StreamEnd(c)
    \/ \E c \in CallIds : ImageResponse(c, TRUE)
    \/ clearHistory

SpecRetry == InitRetry /\ [][NextRetry]_vars

(***************************************************************************)
(* Properties.                                                             *)
(***************************************************************************)
TextCalls == {c \in CallIds : calls[c].kind = "text"}
ImageCalls == {c \in CallIds : calls[c].kind = "image"}
Pending == {c \in CallIds : calls[c].pc = "pending"}

IsWelcomeLog(log) ==
    /\ Len(log) = 1
    /\ Get(log[1], "from") = Str("assistant")
    /\ Get(log[1], "text") = Str("FRIDAY online. Secure channel active.")
    /\ Get(log[1], "image") = Undefined

\* positions of the messages of log that carry id
Positions(log, id) == {i \in 1..Len(log) : Get(log[i], "id") = Str(id)}

\* C1: the message log always holds at least one message, whatever submits,
\* fragment updates, error overwrites, image completions, retries and
\* confirmed clears have happened; and a confirmed clearHistory leaves
\* exactly the assistant welcome message.
C1_LogNeverEmpty ==
    /\ [](Len(messages) >= 1)
    /\ [][nclears' # nclears => IsWelcomeLog(messages')]_vars

\* a clear has run after a call finished, and the log is the welcome message
C1_Witness ==
    /\ nclears = 1
    /\ Len(messages) = 1
    /\ \E c \in CallIds : calls[c].pc = "done"

\* C2: at most one remote call of handleSend / generateImageFlow is pending
\* at any time.
C2_AtMostOneInFlight == Cardinality(Pending) <= 1

\* C3: the chat session is recreated only in a step that resets the log to
\* the single welcome message; a send never recreates it.
C3_SessionRebuiltOnlyOnReset ==
    [][chatRef'.gen # chatRef.gen => (nclears' # nclears /\ IsWelcomeLog(messages'))]_vars

\* C4: while a text send streams, and after its stream has ended normally,
\* the assistant message allocated for it sits in the log, once, with text
\* f1 + ... + fk for the k fragments received so far.
C4_StreamedTextInPlace ==
    \A c \in TextCalls :
        calls[c].outcome # "failed" =>
            /\ Cardinality(Positions(messages, calls[c].assistantMsgId)) = 1
            /\ \A i \in Positions(messages, calls[c].assistantMsgId) :
                   Get(messages[i], "text") = Str(calls[c].fullReply)

\* C5: when the failure of a text send is handled, the assistant message
\* allocated for that send holds the error string, lastError holds the
\* error detail and isThinking is false.
C5_FailedSendShowsError ==
    [][\A c \in CallIds :
          (calls[c].kind = "text" /\ calls[c].pc = "pending" /\ calls'[c].outcome = "failed")
          => /\ \E i \in 1..Len(messages') :
                   /\ Get(messages'[i], "id") = Str(calls[c].assistantMsgId)
                   /\ Get(messages'[i], "text")
                         = Str("FRIDAY couldn't reach the AI. " \o calls'[c].err)
             /\ lastError' = <<calls'[c].err>>
             /\ isThinking' = FALSE]_vars

\* C6: an image request that fails, by a response without inline data or
\* by a rejected request alike, appends exactly one assistant message with
\* the text 'Image generation failed.' and no image, and sets lastError to
\* a non-empty string.
C6_ImageFailureUniform ==
    [][\A c \in CallIds :
          (calls[c].kind = "image" /\ calls[c].pc = "pending" /\ calls'[c].outcome = "failed")
          => /\ Len(messages') = Len(messages) + 1
             /\ SubSeq(messages', 1, Len(messages)) = messages
             /\ Get(messages'[Len(messages')], "from") = Str("assistant")
             /\ Get(messages'[Len(messages')], "text") = Str("Image generation failed.")
             /\ Get(messages'[Len(messages')], "image") = Undefined
             /\ lastError' # Null
             /\ lastError'[1] # ""]_vars

\* both kinds of failure have happened: a response without inline data and
\* a rejected request
C6_Witness ==
    \E c, d \in ImageCalls :
        /\ calls[c].outcome = "failed" /\ calls[c].err = NoImageDataMessage
        /\ calls[d].outcome = "failed" /\ calls[d].err # NoImageDataMessage

\* C7: when the failure of a remote call is handled, the log holds an
\* assistant message reporting that failure and lastError is not null.
C7_EveryFailureReported ==
    [][\A c \in CallIds :
          (calls[c].pc = "pending" /\ calls'[c].outcome = "failed")
          => /\ lastError' # Null
             /\ IF calls[c].kind = "text"
                THEN \E i \in 1..Len(messages') :
                        /\ Get(messages'[i], "id") = Str(calls[c].assistantMsgId)
                        /\ Get(messages'[i], "from") = Str("assistant")
                        /\ Get(messages'[i], "text")
                              = Str("FRIDAY couldn't reach the AI. " \o calls'[c].err)
                ELSE /\ Get(messages'[Len(messages')], "from") = Str("assistant")
                     /\ Get(messages'[Len(messages')], "text")
                           = Str("Image generation failed.")]_vars

\* C8: every text call has an assistant id of its own; at most one message
\* of the log carries it; and that message holds what this call wrote: the
\* fragments it has received so far, or its error string once its catch
\* block has written one.
C8_OneSendPerMessage ==
    /\ \A c, d \in TextCalls : c # d => calls[c].assistantMsgId # calls[d].assistantMsgId
    /\ \A c \in TextCalls :
          /\ Cardinality(Positions(messages, calls[c].assistantMsgId)) <= 1
          /\ \A i \in Positions(messages, calls[c].assistantMsgId) :
                /\ Get(messages[i], "from") = Str("assistant")
                /\ Get(messages[i], "text") =
                      IF calls[c].outcome = "failed" /\ ~calls[c].uncaught
                      THEN Str("FRIDAY couldn't reach the AI. " \o calls[c].err)
                      ELSE Str(calls[c].fullReply)

\* two text sends overlap, one has received a fragment and the other none,
\* and their messages are in the log
C8_Witness ==
    \E c, d \in TextCalls :
        /\ c # d
        /\ calls[c].pc = "pending" /\ calls[d].pc = "pending"
        /\ calls[c].nfrag = 1 /\ calls[d].nfrag = 0
        /\ Positions(messages, calls[c].assistantMsgId) # {}
        /\ Positions(messages, calls[d].assistantMsgId) # {}

\* C9: a fragment update or error overwrite of a call whose assistant
\* message is no longer in the log leaves the log unchanged.
C9_AbsentIdNoOp ==
    [][\A c \in CallIds :
          (/\ calls[c].kind = "text" /\ calls[c].pc = "pending"
           /\ calls'[c] # calls[c]
           /\ Positions(messages, calls[c].assistantMsgId) = {})
          => messages' = messages]_vars

\* after the log was cleared, a call still streaming has made a fragment
\* update and a call that received no fragment an error overwrite
C9_Witness ==
    \E c, d \in TextCalls :
        /\ calls[c].pc = "pending" /\ calls[c].orphaned
        /\ calls[d].outcome = "failed" /\ calls[d].nfrag = 0 /\ calls[d].orphaned

\* the turns of log from position i on: every message without an image,
\* in log order, as role and text
RECURSIVE C10_Turns(_, _)
C10_Turns(log, i) ==
    IF i > Len(log) THEN <<>>
    ELSE (IF Get(log[i], "image") \notin {Undefined, Str("")}
          THEN <<>>
          ELSE <<[role |-> (IF Get(log[i], "from") = Str("user") THEN "user" ELSE "model"),
                  text |-> Get(log[i], "text")]>>)
         \o C10_Turns(log, i + 1)

\* C10: whenever the chat session is built (at mount) or rebuilt, its
\* history is the log without its first message and without the
\* image-bearing messages, in log order, as role and text.
C10_HistoryFromLog ==
    /\ chatRef.history = C10_Turns(messages, 2)
    /\ [][chatRef'.gen # chatRef.gen => chatRef'.history = C10_Turns(messages', 2)]_vars

\* the session has been rebuilt with a user turn and a model turn
C10_Witness ==
    /\ chatRef.gen > 1
    /\ Len(chatRef.history) = 2
    /\ chatRef.history[1].role = "user"
    /\ chatRef.history[2].role = "model"

\* store holds, under the history key, the serialization of log: one object
\* per message, in log order, with exactly the members the message has, in
\* the message's order, and their values
C11_Mirrors(store, log) ==
    /\ store # Null
    /\ Len(store[1]) = Len(log)
    /\ \A i \in 1..Len(log) :
          LET o == store[1][i]
              m == log[i]
          IN  /\ Len(o) = Len(m.keys)
              /\ \A k \in 1..Len(o) :
                    /\ o[k][1] = m.keys[k]
                    /\ o[k][2] = m.val[m.keys[k]]

\* C11: once a change of the log (append, streaming update, error
\* overwrite, reset) has settled, the store holds the serialization of the
\* current log, provided the write of that change did not fail.
C11_StoreMirrorsLog ==
    [][(messages' # messages /\ ~storeFull) => C11_Mirrors(storage', messages')]_vars

\* after a reset, a send has appended its messages and streamed a fragment
\* into its assistant message, another send has had its message overwritten
\* with the error string, and the last write found room in the store
C11_Witness ==
    /\ nclears = 1
    /\ ~storeFull
    /\ C11_Mirrors(storage, messages)
    /\ \E c, d \in TextCalls :
          /\ calls[c].nfrag = 1
          /\ Positions(messages, calls[c].assistantMsgId) # {}
          /\ calls[d].outcome = "failed"
          /\ Positions(messages, calls[d].assistantMsgId) # {}

\* C12: after a confirmed clearHistory has settled, the store holds no
\* entry under the history key.
C12_StoreEmptyAfterClear ==
    [][nclears' # nclears => storage' = Null]_vars

\* C13: when a run of generateImageFlow has returned, by success, by a
\* response without inline data or by a rejected request, its ticker is
\* cancelled, and no later step moves the ticker or lets it write progress.
C13_TickerCancelled ==
    /\ [](\A c \in ImageCalls : calls[c].pc = "done" => ~calls[c].ticking)
    /\ [][\A c \in CallIds :
             (calls[c].kind = "image" /\ calls[c].pc = "done")
             => /\ calls'[c].p = calls[c].p
                /\ calls'[c].nticks = calls[c].nticks
                /\ ~calls'[c].ticking]_vars

\* two flows have returned, one by success before its ticker ever fired
\* and one by a rejected request after its ticker had fired, and progress
\* has been reset since
C13_Witness ==
    /\ progress = 0
    /\ \E c, d \in ImageCalls :
          /\ calls[c].outcome = "ok" /\ calls[c].nticks = 0
          /\ calls[d].outcome = "failed" /\ calls[d].err # NoImageDataMessage
          /\ calls[d].nticks > 0

\* C14: the step in which an image flow completes, by success or failure,
\* sets isGenerating to false and schedules the delayed reset; a scheduled
\* reset leads to progress 0; and isGenerating becomes true again only in
\* a step that starts an image flow.
C14_ProgressReturnsToZero ==
    /\ [][\A c \in CallIds :
             (calls[c].kind = "image" /\ calls[c].pc = "pending" /\ calls'[c].pc = "done")
             => /\ isGenerating' = FALSE
                /\ resetTimers' = resetTimers + 1]_vars
    /\ (resetTimers > 0) ~> (progress = 0)
    /\ [][(~isGenerating /\ isGenerating')
             => /\ ncalls' = ncalls + 1
                /\ calls'[ncalls'].kind = "image"
                /\ calls'[ncalls'].pc = "pending"]_vars

\* a flow that succeeded and a flow that failed have both completed, the
\* resets they scheduled have fired, and progress is 0 with isGenerating
\* false
C14_Witness ==
    /\ progress = 0 /\ resetTimers = 0 /\ ~isGenerating
    /\ \E c, d \in ImageCalls :
          /\ calls[c].outcome = "ok"
          /\ calls[d].outcome = "failed"

\* C18: while an image request is in flight, progress does not exceed 88
\* and no step lowers it.
C18_ProgressMonotone ==
    /\ []((\E c \in ImageCalls : calls[c].pc = "pending") => progress <= 88)
    /\ [][(\E c \in ImageCalls : calls[c].pc = "pending" /\ calls'[c].pc = "pending")
             => progress' >= progress]_vars

\* the triggers of the image flow, on a lower-cased text
C15_Keywords ==
    {"image", "generate", "create", "draw", "paint", "photo", "render",
     "illustrate", "picture", "design"}

C15_Tokens == {"/image", "/img", "/photo"}

C15_WordChars == "abcdefghijklmnopqrstuvwxyzABCDEFGHIJKLMNOPQRSTUVWXYZ0123456789_"

\* k, a word of plain letters, is a substring of t: its characters stand
\* in t, and not inside the six characters that write one code unit
C15_Contains(t, k) ==
    \E i \in 0..(Len(t) - Len(k)) :
        /\ SubSeq(t, i + 1, i + Len(k)) = k
        /\ \A j \in 1..5 : i + 1 - j < 1 \/ SubSeq(t, i + 1 - j, i + 1 - j) # "\\"

\* t starts with tok and a word boundary follows: t ends there, or the
\* next character is not a word character (a code unit written with a
\* backslash never is)
C15_StartsWith(t, tok) ==
    /\ Len(t) >= Len(tok)
    /\ SubSeq(t, 1, Len(tok)) = tok
    /\ \/ Len(t) = Len(tok)
       \/ \A j \in 1..Len(C15_WordChars) :
             SubSeq(C15_WordChars, j, j) # SubSeq(t, Len(tok) + 1, Len(tok) + 1)

C15_Triggers(t) ==
    \/ \E k \in C15_Keywords : C15_Contains(t, k)
    \/ \E tok \in C15_Tokens : C15_StartsWith(t, tok)

\* the texts submitted under SpecRouting, each with its lower-case form
\* written out: U+212A becomes k, U+0130 becomes i and U+0307, U+03A9
\* becomes U+03C9
C15_LowerCased ==
    "hello" :> "hello" @@ "Draw a cat" :> "draw a cat"
    @@ "redesign" :> "redesign" @@ "/img" :> "/img"
    @@ "/IMG cat" :> "/img cat" @@ "/imgx" :> "/imgx"
    @@ "/img_1" :> "/img_1" @@ "/img dog" :> "/img dog"
    @@ "x /img" :> "x /img" @@ "/photo" :> "/photo"
    @@ "/Image  sky" :> "/image  sky"
    @@ "/img\fcat" :> "/img\fcat"
    @@ "/img-x" :> "/img-x"
    @@ "/img\\u212A" :> "/imgk"
    @@ "/IMG\\u0130" :> "/imgi\\u0307"
    @@ "/Img\\u03A9" :> "/img\\u03C9"
    @@ "PA\\u0130NT" :> "pai\\u0307nt"
    @@ "/img\\u212A draw" :> "/imgk draw"

\* C15: a submitted text is routed to the image flow exactly when its
\* lower-cased text contains a keyword or starts with a command token
\* followed by a word boundary, and to the chat session otherwise; the
\* routing depends on the text alone, and an image request is never sent
\* to the chat session.
C15_RoutingByTriggers ==
    /\ \A c \in CallIds :
          calls[c].kind # "none" =>
             /\ calls[c].text \in DOMAIN C15_LowerCased
             /\ LET image == C15_Triggers(C15_LowerCased[calls[c].text]) IN
                /\ calls[c].kind = (IF image THEN "image" ELSE "text")
                /\ image => calls[c].session = 0
    /\ \A c, d \in CallIds :
          (calls[c].kind # "none" /\ calls[d].kind # "none" /\ calls[c].text = calls[d].text)
          => calls[c].kind = calls[d].kind

\* a command token followed by the Kelvin sign, whose lower-case form is
\* the word character k, has been routed to the chat session, and a
\* command token with an upper-case letter followed by a capital omega,
\* whose lower-case form is no word character, to the image flow
C15_Witness ==
    \E c, d \in CallIds :
        /\ calls[c].text = "/img\\u212A" /\ calls[c].kind = "text"
        /\ calls[d].text = "/Img\\u03A9" /\ calls[d].kind = "image"

\* the command tokens in upper case
C19_Upper == "/image" :> "/IMAGE" @@ "/img" :> "/IMG" @@ "/photo" :> "/PHOTO"

\* text starts with the command token tok, each letter in either case,
\* and a word boundary follows
C19_StartsWith(text, tok) ==
    /\ Len(text) >= Len(tok)
    /\ \A j \in 1..Len(tok) :
          SubSeq(text, j, j) \in {SubSeq(tok, j, j), SubSeq(C19_Upper[tok], j, j)}
    /\ \/ Len(text) = Len(tok)
       \/ \A j \in 1..Len(C15_WordChars) :
             SubSeq(C15_WordChars, j, j) # SubSeq(text, Len(tok) + 1, Len(tok) + 1)

\* the prompt the claim describes for submitted text: one leading command
\* token removed, then trimmed, or text itself when that is empty
C19_Sent(text) ==
    LET toks == {tok \in C15_Tokens : C19_StartsWith(text, tok)}
        rest == IF toks = {} THEN text
                ELSE LET tok == CHOOSE x \in toks : \A y \in toks : Len(x) >= Len(y)
                     IN  SubSeq(text, Len(tok) + 1, Len(text))
    IN  IF trim(rest) = "" THEN text ELSE trim(rest)

\* C19: the prompt sent to the image capability is the submitted text
\* with one leading command token removed and then trimmed, or the
\* submitted text when that is empty; it is never empty; and the image
\* message appended on success quotes exactly the prompt sent.
C19_PromptSent ==
    /\ [](\A c \in ImageCalls :
             /\ calls[c].bodyPrompt = C19_Sent(calls[c].text)
             /\ calls[c].bodyPrompt # "")
    /\ [][\A c \in CallIds :
             (calls[c].kind = "image" /\ calls[c].pc = "pending" /\ calls'[c].outcome = "ok")
             => /\ Len(messages') = Len(messages) + 1
                /\ Get(messages'[Len(messages')], "image") # Undefined
                /\ Get(messages'[Len(messages')], "text")
                      = Str("Generated image: \"" \o calls[c].bodyPrompt \o "\"")]_vars

\* a bare command token has been sent as it is, an upper-case token
\* followed by a prompt has been sent stripped, and both images came back
C19_Witness ==
    \E c, d \in ImageCalls :
        /\ calls[c].text = "/img" /\ calls[c].bodyPrompt = "/img" /\ calls[c].outcome = "ok"
        /\ calls[d].text = "/Image  sky" /\ calls[d].bodyPrompt = "sky" /\ calls[d].outcome = "ok"

\* the text members of the user messages of log from position i on, in
\* log order, each as the value it is (undefined where a message has none)
RECURSIVE C16_UserTexts(_, _)
C16_UserTexts(log, i) ==
    IF i > Len(log) THEN <<>>
    ELSE (IF Get(log[i], "from") = Str("user") THEN <<Get(log[i], "text")>> ELSE <<>>)
         \o C16_UserTexts(log, i + 1)

\* C16: while the log holds no user message, no call of retryLast changes
\* anything: the log, the composer, the flags, lastError and the queue of
\* submits stay as they are.  A submit is queued by retryLast only when
\* the log holds a user message, and that step puts the text member of
\* the last user message in the composer and changes nothing else.  The
\* queued submit fires once and runs handleSend: on a composer value that
\* is not a string its trim() throws and nothing is set, on a blank
\* composer it returns at once, and otherwise it starts one send of the
\* trimmed composer text.
C16_RetryLast ==
    /\ [](C16_UserTexts(messages, 1) = <<>> => ~ENABLED <<retryLast>>_vars)
    /\ [][retryTimers' > retryTimers
             => /\ C16_UserTexts(messages, 1) # <<>>
                /\ input' = C16_UserTexts(messages, 1)[Len(C16_UserTexts(messages, 1))]
                /\ retryTimers' = retryTimers + 1
                /\ UNCHANGED <<messages, isThinking, isGenerating, lastError,
                               calls, ncalls, chatRef, storage, storeFull, unhandled>>]_vars
    /\ [][retryTimers' < retryTimers
             => /\ retryTimers' = retryTimers - 1
                /\ IF input[1] # "string"
                   THEN /\ unhandled'
                        /\ UNCHANGED <<messages, input, isThinking, isGenerating,
                                       lastError, calls, ncalls>>
                   ELSE IF trim(input[2]) = ""
                   THEN UNCHANGED <<messages, input, isThinking, isGenerating,
                                    lastError, calls, ncalls, unhandled>>
                   ELSE /\ ncalls' = ncalls + 1
                        /\ calls'[ncalls'].pc = "pending"
                        /\ calls'[ncalls'].text = trim(input[2])
                        /\ \A c \in CallIds : c # ncalls' => calls'[c] = calls[c]
                        /\ UNCHANGED unhandled]_vars

\* a retry on a log whose last user message has no text queued a submit
\* that threw; a later retry has put the text of the last send in the
\* composer and its submit is queued; the log has been cleared since, so
\* it holds no user message, and retryLast can be called
C16_Witness ==
    /\ unhandled
    /\ retryTimers = 1
    /\ ncalls >= 1
    /\ input = Str(calls[ncalls].text)
    /\ C16_UserTexts(messages, 1) = <<>>
    /\ ENABLED retryLast

\* the recognition sessions that can still deliver a result
C20_Delivering == {i \in RecIds : recs[i].st \in {"starting", "running", "heard"}}

\* C20: at most one recognition session that can deliver results is open
\* at a time; no utterance is appended to the composer by more than one
\* session; and after an onerror or onend event listening is false.
C20_VoiceReentrantSafe ==
    /\ [](Cardinality(C20_Delivering) <= 1)
    /\ [](\A k \in 1..nutt :
             Cardinality({i \in RecIds : recs[i].got /\ recs[i].utt = k}) <= 1)
    /\ [][\A i \in RecIds :
             ((recs'[i].err /\ ~recs[i].err) \/ (recs'[i].st = "ended" /\ recs[i].st # "ended"))
             => listening' = FALSE]_vars

\* the stored value is the serialization of a non-empty message list
C17_StoredList(r) == Len(r) = 1 /\ Len(r[1]) >= 1

\* log is the list document doc denotes: one message per object, in
\* order, with the members the object names and for each the value
\* written last under that name
C17_Denotes(log, doc) ==
    /\ Len(log) = Len(doc)
    /\ \A i \in 1..Len(doc) :
          /\ DOMAIN log[i].val = {doc[i][k][1] : k \in 1..Len(doc[i])}
          /\ \A k \in 1..Len(doc[i]) :
                (\A j \in (k + 1)..Len(doc[i]) : doc[i][j][1] # doc[i][k][1])
                => log[i].val[doc[i][k][1]] = doc[i][k][2]

\* C17: at startup, before anything is saved again, the log is the stored
\* list when the store holds a serialized non-empty message list, and
\* exactly one assistant welcome message when the key is absent or its
\* value is unparsable, not a list, or the empty list.
C17_SeededOrLoaded ==
    chatRef = Null =>
        IF C17_StoredList(storage)
        THEN C17_Denotes(messages, storage[1])
        ELSE IsWelcomeLog(messages)

\* the number of user messages of log from position i on
RECURSIVE C21_Users(_, _)
C21_Users(log, i) ==
    IF i > Len(log) THEN 0
    ELSE (IF Get(log[i], "from") = Str("user") THEN 1 ELSE 0) + C21_Users(log, i + 1)

\* C21: a remote call is issued only by a step that is a submit of the
\* form (the Send button, or the submit a retry queued); that step issues
\* one call, a chat stream for a text classified text and an image
\* request for a text classified image, and appends one user message
\* carrying the text; a call that has ended, by success or failure, is
\* over: nothing sends it again.
C21_OneCallPerSubmit ==
    /\ [][ncalls' # ncalls
             => /\ ncalls' = ncalls + 1
                /\ \/ retryTimers' = retryTimers - 1
                   \/ retryTimers' = retryTimers /\ Truthy(input) /\ ~isThinking /\ ~isGenerating
                /\ \A c \in CallIds : c # ncalls' => calls'[c] = calls[c]
                /\ calls'[ncalls'].pc = "pending"
                /\ calls'[ncalls'].kind
                      = (IF C15_Triggers(toLowerCase(calls'[ncalls'].text))
                         THEN "image" ELSE "text")
                /\ (calls'[ncalls'].session # 0) = (calls'[ncalls'].kind = "text")
                /\ C21_Users(messages', 1) = C21_Users(messages, 1) + 1
                /\ \E i \in 1..Len(messages') :
                      /\ Get(messages'[i], "from") = Str("user")
                      /\ Get(messages'[i], "text") = Str(calls'[ncalls'].text)]_vars
    /\ [][\A c \in CallIds :
             /\ ncalls' = ncalls => (calls'[c].kind = "none") = (calls[c].kind = "none")
             /\ (calls[c].pc = "pending" /\ calls'[c].outcome # "none") => calls'[c].pc = "done"
             /\ calls[c].pc = "done" => calls'[c] = calls[c]]_vars

\* a text send has failed, and a later send, made by the user's retry or
\* submit, is in flight as an image request
C21_Witness ==
    \E c, d \in CallIds :
        /\ c < d
        /\ calls[c].kind = "text" /\ calls[c].outcome = "failed"
        /\ calls[d].kind = "image" /\ calls[d].pc = "pending"

\* C22: isThinking is true exactly when a text send is pending, and
\* isGenerating exactly when an image request is pending.
C22_FlagsTrackPending ==
    /\ isThinking = (\E c \in TextCalls : calls[c].pc = "pending")
    /\ isGenerating = (\E c \in ImageCalls : calls[c].pc = "pending")

====
